---- MODULE Spec2Model ----
(***************************************************************************)
(* notcl: a driver process controls a Tcl tool (the child) through three   *)
(* named FIFOs.  The model covers                                          *)
(*   - the framed codec of message.py (RawMessage, Message),               *)
(*   - the transport of bridge_server.py (BridgeServer: recv_raw,          *)
(*     send_raw, the scope of its context manager, the sentinel),          *)
(*   - the session controller of tcltool.py (TclTool.contextmanager,       *)
(*     TclTool.eval),                                                      *)
(*   - the child: the message loop of bridge_client.py, plus the sentinel  *)
(*     and exit behaviour of the Tcl companion script, which is not part   *)
(*     of the Python sources.                                              *)
(*   - the encoding of Python values and the procedure calls of tclobj.py  *)
(*     and tcltool.py (encode, TclRemoteObjRef.proc_call, proc_call).      *)
(* Two specifications share the transport and the child:                   *)
(*   Spec        a TclTool session (contextmanager and a scope body),      *)
(*   BridgeSpec  a caller that uses a BridgeServer directly, as            *)
(*               tests/test_bridge.py does, with calls in any order.       *)
(* The others are                                                          *)
(*   CodecSpec   a raw message written, read back and constructed,         *)
(*   EncodeSpec  encode applied to a Python value,                         *)
(*   CallSpec    one procedure call made by the body of a session,         *)
(*   PairSpec    two tool objects open at the same time.                   *)
(***************************************************************************)
EXTENDS Integers, Sequences, FiniteSets, TLC

VARIABLES
    \* TclTool.__init__
    interact,           \* self.interact
    abort_on_error,     \* self.abort_on_error
    \* BridgeServer
    state,              \* self.state: "NotListening" | "WaitForRecv" | "WaitForSend"
    sentinel_fd,        \* self.sentinel_fd: "None" | "open" | "closed"
    fifos,              \* the temporary directory with the three FIFOs exists
    tcl2py_fd,          \* recv_raw's tcl2py_fd: "unset" | "open" | "stale" (the file object
                        \* closed the descriptor, the variable still holds its number)
                        \* | "-1" | "closed" (closed by os.close)
    py2tcl_fd,          \* send_raw's py2tcl_fd, likewise
    op,                 \* the recv/send call running or last made: "none" | "recv" | "send"
    tp,                 \* position inside recv/send: "idle", "r_select", "s_loop", "s_wait", "s_write", "ret"
    permitted,          \* recv's permitted_msg_classes, a tuple of class names
    send_data,          \* send_raw's send_data (a RawMessage)
    ret,                \* how the last recv/send ended: "ok" or the exception raised
    retmsg,             \* the RawMessage behind the Message recv returned
    retcls,             \* the class of the Message recv returned ("": none)
    touched,            \* the running recv/send has opened, read or written a FIFO
    state_at_call,      \* self.state when the running recv/send was called
    \* TclTool.contextmanager and the scope body
    pc,                 \* position of the driver
    child_exited_early, \* local child_exited_early
    quit,               \* local quit
    exc,                \* exception propagating out of contextmanager ("none": none)
    body_exc,           \* exception the scope body raised ("none": none)
    teardown_exc,       \* exception the finally block itself raised ("none": none)
    rc,                 \* result of self.proc.wait() (-1: not waited)
    exc_rc,             \* CalledProcessError.returncode (-1: none)
    exc_cmd,            \* CalledProcessError.cmd (<<>>: none)
    cur_cmd,            \* eval's cmd
    handles,            \* the TclRemoteObjRef values eval returned, in order
    tcl_error,          \* the text carried by the TclError eval raised last (<< >>: none)
    call,               \* the arguments of the encode or proc_call invocation made
    built,              \* what that invocation built, or the exception it raised
    \* two sessions open at the same time (PairSpec)
    tools,              \* per session: the driver's position, bs.state, the temp dir,
                        \* the commands evaluated and the results received
    procs,              \* per session: self.proc, the child with its environment
    tmp_dirs,           \* the temporary directories that exist in the file system
    pipes,              \* per directory: the messages in its tcl2py and py2tcl FIFOs
    died_at,            \* the driver's position when the child exited ("": it has not)
    \* the child process
    child,              \* "unspawned" | "running" | "dead"
    cpc,                \* position of the child
    child_rc,           \* exit code of the child (-1: still running)
    sentinel_w,         \* the child's write end of the sentinel: "never" | "open" | "closed"
    cmd_count,          \* the child's counter of evaluated commands
    c_reply,            \* the RawMessage the child is about to send
    \* the FIFOs
    t2p_buf,            \* tcl2py: << >>, or <<bytes>> written and not yet read
    p2t_buf,            \* py2tcl: << >>, or <<bytes>> written and not yet read
    \* history
    sent,               \* RawMessages the driver wrote to py2tcl, in order
    recvd,              \* RawMessages the driver read from tcl2py, in order
    child_seen,         \* RawMessages the child read from py2tcl, in order
    calls               \* number of recv/send calls made (BridgeSpec), evals started (Spec)

callVars == << call, built >>

pairVars == << tools, procs, tmp_dirs, pipes >>

vars == << interact, abort_on_error, callVars, pairVars, tcl_error, state, sentinel_fd, fifos, tcl2py_fd, py2tcl_fd,
           op, tp, permitted, send_data, ret, retmsg, retcls, touched, state_at_call,
           pc, child_exited_early, quit, exc, body_exc, teardown_exc, rc, exc_rc, exc_cmd,
           cur_cmd, handles, died_at,
           child, cpc, child_rc, sentinel_w, cmd_count, c_reply,
           t2p_buf, p2t_buf, sent, recvd, child_seen, calls >>

bridgeVars == << state, sentinel_fd, fifos, tcl2py_fd, py2tcl_fd, op, tp, permitted,
                 send_data, ret, retmsg, retcls, touched, state_at_call >>

sessionVars == << interact, abort_on_error, callVars, pairVars, tcl_error, pc, child_exited_early, quit, exc, body_exc,
                  teardown_exc, rc, exc_rc, exc_cmd, cur_cmd, handles, calls >>

childVars == << child, cpc, child_rc, sentinel_w, cmd_count, c_reply, child_seen, died_at >>

pipeVars == << t2p_buf, p2t_buf >>

histVars == << sent, recvd >>

(***************************************************************************)
(* Bounds                                                                  *)
(***************************************************************************)
\* evaluations one scope body starts
MaxEvals == 3
\* recv/send calls the direct caller of BridgeSpec makes
MaxCalls == 4
\* largest exit code of the child
MaxExitCode == 1
\* elements of a list, entries of a dict, that encode is given
MaxItems == 2
\* directory names the temporary directories are taken from
MaxTmpNames == 2
\* evaluations each of two sessions open at the same time makes
MaxPairEvals == 2

ExitCodes == 0..MaxExitCode

(***************************************************************************)
(* message.py: RawMessage, an ordered mapping of keys to text, is a        *)
(* sequence of <<key, value>> pairs with distinct keys.                    *)
(***************************************************************************)
HasKey(m, k) == \E i \in 1..Len(m) : m[i][1] = k

Get(m, k) == m[CHOOSE i \in 1..Len(m) : m[i][1] = k][2]

\* b64encode(value.encode("utf8")): a token that is not the text itself
B64(v) == << "b64", v >>

\* b64decode(value).decode("utf8")
B64Decode(t) == t[2]

\* message.py 25-33: b"\n".join of key, b64(value), key, b64(value), ...
RECURSIVE msg_list(_)
msg_list(m) ==
    IF m = << >> THEN << >>
    ELSE << m[1][1], B64(m[1][2]) >> \o msg_list(Tail(m))

send_to_pipe(m) == msg_list(m)

\* f_in.read().split(b"\n"): the empty byte string splits into one empty token
Split(bytes) == IF bytes = << >> THEN << "" >> ELSE bytes

\* message.py 9-22: "ValueError" for an odd number of tokens
RECURSIVE pairs(_)
pairs(l) ==
    IF l = << >> THEN << >>
    ELSE << << l[1], B64Decode(l[2]) >> >> \o pairs(Tail(Tail(l)))

from_pipe(bytes) ==
    LET l == Split(bytes) IN
    IF Len(l) % 2 # 0 THEN [err |-> "ValueError", msg |-> << >>]
    ELSE [err |-> "ok", msg |-> pairs(l)]

\* message.py 61-71: Message(**kwargs): the fields, then "class"
TclHello ==
    << <<"patchlevel", "8.6">>, <<"commands", "set expr exit">>, <<"globals", "argv">>,
       <<"nameofexecutable", "tclsh">>, <<"class", "TclHello">> >>

PyProcedureCall(command) == << <<"command", command>>, <<"class", "PyProcedureCall">> >>

TclProcedureResult(result, err_code, cmd_idx) ==
    << <<"result", result>>, <<"err_code", err_code>>, <<"cmd_idx", cmd_idx>>,
       <<"class", "TclProcedureResult">> >>

PyExit(q) == << <<"quit", q>>, <<"class", "PyExit">> >>

\* a constructor that does not compare the class of its source
MessageInit_AnyClass(cls, source) ==
    IF source = << >> THEN "ok"
    ELSE IF ~HasKey(source, "class") THEN "KeyError"
    ELSE "ok"

\* message.py 61-68: Message(source): an empty source is falsy and takes the kwargs
\* branch; otherwise accepted iff source["class"] is the class name
MessageInit(cls, source) ==
    IF source = << >> THEN "ok"
    ELSE IF ~HasKey(source, "class") THEN "KeyError"
    ELSE IF Get(source, "class") # cls THEN "WrongMessageClass"
    ELSE "ok"

\* msg_classes.py 9, 13, 17, 21: keys_required of each message class
keys_required(cls) ==
    IF cls = "TclHello" THEN { "patchlevel", "commands", "globals", "nameofexecutable" }
    ELSE IF cls = "PyProcedureCall" THEN { "command" }
    ELSE IF cls = "TclProcedureResult" THEN { "err_code", "result", "cmd_idx" }
    ELSE IF cls = "PyExit" THEN { "quit" }
    ELSE { }

\* message.py 38-49: to_message tries the permitted classes in order (a single class
\* is wrapped into a tuple first); only WrongMessageClass makes it try the next one
RECURSIVE to_message(_, _)
to_message(m, permitted_msg_classes) ==
    IF permitted_msg_classes = << >> THEN [err |-> "WrongMessageClass", cls |-> ""]
    ELSE LET r == MessageInit(permitted_msg_classes[1], m) IN
         IF r = "WrongMessageClass" THEN to_message(m, Tail(permitted_msg_classes))
         ELSE [err |-> r, cls |-> IF r = "ok" THEN permitted_msg_classes[1] ELSE ""]

\* int(text) of the decimal digits the child sends
IntOf(text) == CHOOSE n \in 0..(MaxEvals + MaxCalls + 2) : ToString(n) = text

(***************************************************************************)
(* The commands a scope body evaluates and what the child makes of them.   *)
(***************************************************************************)
ExitCmd(c) == "exit " \o ToString(c)

Cmds == { "expr 1+1", "expr *+" } \cup { ExitCmd(c) : c \in ExitCodes }

IsExit(cmd) == \E c \in ExitCodes : cmd = ExitCmd(c)

ExitArg(cmd) == CHOOSE c \in ExitCodes : cmd = ExitCmd(c)

\* the child's evaluation of a command that is not exit: <<err_code, result>>
TclEval(cmd) ==
    IF cmd = "expr 1+1" THEN << "0", "2" >>
    ELSE << "1", "syntax error in expression" >>

\* the argv cmdline() returns
Cmdline == << "tclsh", "notcl.tcl" >>

\* exceptions derived from Exception, which "except Exception" catches;
\* KeyboardInterrupt derives from BaseException only
IsException(e) == e \notin { "none", "KeyboardInterrupt" }

(***************************************************************************)
(* tclobj.py: Python values and their Tcl encoding.  A value is a record   *)
(*   t      its type: "str", "int", "bool", "list", "tuple", "dict", or    *)
(*          "ref" for a TclRemoteObjRef,                                   *)
(*   s      str(value) as a sequence of characters (scalars and handles),  *)
(*   idx    cmd_idx of a handle (-1 otherwise),                            *)
(*   keys   the keys of a dict, in insertion order,                        *)
(*   items  the elements of a list or tuple, the values of a dict.         *)
(* Texts that are built are TLA+ strings.                                  *)
(***************************************************************************)
PyStr(chars) == [t |-> "str", s |-> chars, idx |-> -1, keys |-> << >>, items |-> << >>]

PyInt(n) == [t |-> "int", s |-> << ToString(n) >>, idx |-> -1, keys |-> << >>, items |-> << >>]

PyBool(b) ==
    [t |-> "bool", s |-> IF b THEN << "T", "r", "u", "e" >> ELSE << "F", "a", "l", "s", "e" >>,
     idx |-> -1, keys |-> << >>, items |-> << >>]

PyList(elems) == [t |-> "list", s |-> << >>, idx |-> -1, keys |-> << >>, items |-> elems]

PyTuple(elems) == [t |-> "tuple", s |-> << >>, idx |-> -1, keys |-> << >>, items |-> elems]

PyDict(ks, vs) == [t |-> "dict", s |-> << >>, idx |-> -1, keys |-> ks, items |-> vs]

\* a TclRemoteObjRef with its cmd_idx and its value
PyRef(cmd_idx, chars) == [t |-> "ref", s |-> chars, idx |-> cmd_idx, keys |-> << >>, items |-> << >>]

\* str(obj) of a scalar or a handle (TclRemoteObjRef.__str__ returns the value)
str(obj) == obj.s

\* the characters of a text, concatenated
RECURSIVE Text(_)
Text(chars) == IF chars = << >> THEN "" ELSE Head(chars) \o Text(Tail(chars))

\* sep.join(texts)
RECURSIVE Join(_, _)
Join(sep, texts) ==
    IF texts = << >> THEN ""
    ELSE IF Len(texts) = 1 THEN texts[1]
    ELSE texts[1] \o sep \o Join(sep, Tail(texts))

\* tclobj.py 124-125: every "{" and "}" gets a backslash in front
RECURSIVE escape_braces(_)
escape_braces(data) ==
    IF data = << >> THEN << >>
    ELSE ( IF Head(data) \in { "{", "}" } THEN << "\\", Head(data) >> ELSE << Head(data) >> )
         \o escape_braces(Tail(data))

\* tclobj.py 53-66: TclRemoteObjRef.ref_str
ref_str(obj) == "$cmd_results(" \o ToString(obj.idx) \o ")"

\* tclobj.py 136: reduce(lambda a, b: a+b, obj.items()), the items flattened to
\* k1, v1, k2, v2, ...; reduce has no initial value and raises on no items
RECURSIVE Flatten(_, _)
Flatten(ks, vs) ==
    IF ks = << >> THEN << >> ELSE << ks[1], vs[1] >> \o Flatten(Tail(ks), Tail(vs))

reduce(obj) ==
    IF obj.keys = << >> THEN [exc |-> "TypeError", list |-> << >>]
    ELSE [exc |-> "none", list |-> Flatten(obj.keys, obj.items)]

\* a handle encoded as a reference whatever the nesting
EncodesAsRef_AlsoNested(obj, nested) == obj.t = "ref"

\* tclobj.py 141: isinstance(obj, TclRemoteObjRef) and not nested
EncodesAsRef(obj, nested) == obj.t = "ref" /\ ~nested

\* tclobj.py 127-144: encode(obj, nested); the result is the text returned, or the
\* exception raised
RECURSIVE encode(_, _)
encode(obj, nested) ==
    LET braced(list) ==
            LET parts == [i \in 1..Len(list) |-> encode(list[i], TRUE)]
            IN  IF \E i \in 1..Len(list) : parts[i].exc # "none"
                THEN [exc |-> parts[CHOOSE i \in 1..Len(list) :
                                        /\ parts[i].exc # "none"
                                        /\ \A j \in 1..(i-1) : parts[j].exc = "none"].exc,
                      text |-> ""]
                ELSE [exc |-> "none",
                      text |-> "{" \o Join(" ", [i \in 1..Len(list) |-> parts[i].text]) \o "}"]
    IN  IF obj.t \in { "list", "tuple" } THEN braced(obj.items)
        ELSE IF obj.t = "dict"
        THEN IF reduce(obj).exc # "none"
             THEN [exc |-> reduce(obj).exc, text |-> ""]
             ELSE braced(reduce(obj).list)
        ELSE IF EncodesAsRef(obj, nested) THEN [exc |-> "none", text |-> ref_str(obj)]
        ELSE [exc |-> "none", text |-> "{" \o Text(escape_braces(str(obj))) \o "}"]

\* no encode or proc_call invocation has been made
NoCall ==
    [fn |-> "none", called_object_pos |-> "", self |-> PyStr(<< >>), name |-> "",
     args |-> << >>, kwargs |-> PyDict(<< >>, << >>), nested |-> FALSE]

NoResult == [exc |-> "unset", text |-> ""]

\* the object always placed as with "second"
TclRemoteObjRef_proc_call_AlwaysSecond(self, pos, name, args) ==
    [exc |-> "none", cmd |-> Text(name), args |-> << self >> \o args]

\* tclobj.py 106-121: TclRemoteObjRef.proc_call(name, args, kwargs) places the handle
\* according to tool.called_object_pos; the result is the command name and the
\* arguments handed to TclTool.proc_call, or the exception raised
TclRemoteObjRef_proc_call(self, pos, name, args) ==
    IF pos = "first"
    THEN [exc |-> "none", cmd |-> ref_str(self), args |-> << PyStr(name) >> \o args]
    ELSE IF pos = "second"
    THEN [exc |-> "none", cmd |-> Text(name), args |-> << self >> \o args]
    ELSE IF pos = "last"
    THEN [exc |-> "none", cmd |-> Text(name), args |-> args \o << self >>]
    ELSE [exc |-> "ValueError", cmd |-> "", args |-> << >>]

\* a keyword argument that is False still contributes its switch
kwarg_words_FalseToo(k, v) ==
    IF v.t = "bool" THEN << [exc |-> "none", text |-> "-" \o Text(k.s)] >>
    ELSE << [exc |-> "none", text |-> "-" \o Text(k.s)], encode(v, FALSE) >>

\* tcltool.py 303-309: what one keyword argument appends to full_cmd
kwarg_words(k, v) ==
    IF v.t = "bool"
    THEN IF v = PyBool(TRUE) THEN << [exc |-> "none", text |-> "-" \o Text(k.s)] >> ELSE << >>
    ELSE << [exc |-> "none", text |-> "-" \o Text(k.s)], encode(v, FALSE) >>

RECURSIVE kwargs_words(_, _)
kwargs_words(ks, vs) ==
    IF ks = << >> THEN << >> ELSE kwarg_words(ks[1], vs[1]) \o kwargs_words(Tail(ks), Tail(vs))

\* tcltool.py 287-313: TclTool.proc_call(cmd, args, kwargs) up to the call of eval:
\* the text handed to eval, or the exception encode raised
proc_call(cmd, args, kwargs) ==
    LET full_cmd == << [exc |-> "none", text |-> cmd] >>
                    \o kwargs_words(kwargs.keys, kwargs.items)
                    \o [i \in 1..Len(args) |-> encode(args[i], FALSE)]
        failed == { i \in 1..Len(full_cmd) : full_cmd[i].exc # "none" }
    IN  IF failed # { }
        THEN [exc |-> full_cmd[CHOOSE i \in failed : \A j \in failed : i <= j].exc, text |-> ""]
        ELSE [exc |-> "none",
              text |-> Join(" ", [i \in 1..Len(full_cmd) |-> full_cmd[i].text])]

(***************************************************************************)
(* Two tool objects in one driver process, as tests/test_concurrency.py    *)
(* uses them.                                                              *)
(***************************************************************************)
Sessions == { "a", "b" }

\* names tempfile can give a temporary directory
TmpNames == 1..MaxTmpNames

\* TclTool.__init__ / BridgeServer.__init__ of one tool object
NewTool == [pc |-> "out", state |-> "NotListening", tmp_dir |-> 0, cmds |-> << >>,
            results |-> << >>]

\* self.proc before Popen
NoProc == [alive |-> "unspawned", dir |-> 0, hello_sent |-> FALSE, cmd_count |-> 0, x |-> << >>]

NoPipes == [tcl2py |-> << >>, py2tcl |-> << >>]

\* no tool object has been entered
PairUnused ==
    /\ tools = [s \in Sessions |-> NewTool]
    /\ procs = [s \in Sessions |-> NoProc]
    /\ tmp_dirs = { }
    /\ pipes = [d \in TmpNames |-> NoPipes]

(***************************************************************************)
(* The FIFOs as the kernel presents them.                                  *)
(***************************************************************************)
\* a kernel that reports EOF on the sentinel as long as no writer is connected
SentinelReadable_UntilConnected == sentinel_w # "open"

\* select reports the sentinel read end readable (EOF) once a writer has been
\* seen and every write end is closed; the child closes its end when it exits
SentinelReadable == sentinel_w = "closed"

\* the child has py2tcl open for reading (it is inside its blocking open or read)
ChildReading == child = "running" /\ cpc = "c_recv"

(***************************************************************************)
(* bridge_server.py: BridgeServer.recv / recv_raw                          *)
(***************************************************************************)
\* a recv_raw that only checks that the transport is listening
RecvPrecondition_ListeningOnly == state # "NotListening"

\* bridge_server.py 75: the assertion on entry of recv_raw
RecvPrecondition == state = "WaitForRecv"

\* bridge_server.py 152-154, 74-80: recv is called; the assertion, then the open
RecvCall(cls) ==
    /\ op' = "recv"
    /\ permitted' = cls
    /\ state_at_call' = state
    /\ retmsg' = << >>
    /\ retcls' = ""
    /\ IF ~RecvPrecondition
       THEN /\ tp' = "ret"
            /\ ret' = "AssertionError"
            /\ touched' = FALSE
            /\ UNCHANGED tcl2py_fd
       ELSE /\ tp' = "r_select"
            /\ ret' = "none"
            /\ touched' = TRUE
            /\ tcl2py_fd' = "open"
    /\ UNCHANGED << state, sentinel_fd, fifos, py2tcl_fd, send_data >>

\* a finally block that closes nothing
FinallyClose_Skipped(fd, e) == [fd |-> fd, exc |-> e]

\* bridge_server.py 103-105 and 145-147: the finally block closes the descriptor when
\* the variable is still >= 0; closing a descriptor the file object has closed
\* already raises OSError (EBADF), which replaces the exception in flight
FinallyClose(fd, e) ==
    IF fd = "open" THEN [fd |-> "closed", exc |-> e]
    ELSE IF fd = "stale" THEN [fd |-> "stale", exc |-> "OSError"]
    ELSE [fd |-> fd, exc |-> e]

\* a recv_raw that resets the state when it raises
RecvRaise_StopsListening(fd, e) ==
    LET f == FinallyClose(fd, e) IN
    /\ tcl2py_fd' = f.fd
    /\ ret' = f.exc
    /\ tp' = "ret"
    /\ t2p_buf' = << >>
    /\ state' = "NotListening"
    /\ UNCHANGED << recvd, retmsg, retcls >>

\* recv_raw ends by raising e from inside the try block
RecvRaise(fd, e) ==
    LET f == FinallyClose(fd, e) IN
    /\ tcl2py_fd' = f.fd
    /\ ret' = f.exc
    /\ tp' = "ret"
    /\ t2p_buf' = << >>
    /\ UNCHANGED << state, recvd, retmsg, retcls >>

\* a recv_raw that leaves before the transition to WaitForSend when the frame it read
\* reports an error
RecvRead_NoTransitionOnError ==
    LET r == from_pipe(t2p_buf[1]) IN
    /\ tcl2py_fd' = "-1"
    /\ t2p_buf' = << >>
    /\ state' = IF HasKey(r.msg, "err_code") /\ Get(r.msg, "err_code") # "0"
                THEN state ELSE "WaitForSend"
    /\ recvd' = Append(recvd, r.msg)
    /\ retmsg' = r.msg
    /\ ret' = to_message(r.msg, permitted).err
    /\ retcls' = to_message(r.msg, permitted).cls
    /\ tp' = "ret"

\* bridge_server.py 98-101, 107-109, 154: the frame is read to EOF and decoded by the
\* file object, which then closes the descriptor; tcl2py_fd = -1 only after that
RecvRead ==
    LET r == from_pipe(t2p_buf[1]) IN
    IF r.err # "ok"
    THEN RecvRaise("stale", r.err)
    ELSE /\ tcl2py_fd' = "-1"
         /\ t2p_buf' = << >>
         /\ state' = "WaitForSend"
         /\ recvd' = Append(recvd, r.msg)
         /\ retmsg' = r.msg
         /\ ret' = to_message(r.msg, permitted).err
    /\ retcls' = to_message(r.msg, permitted).cls
         /\ tp' = "ret"

\* bridge_server.py 82-105: one pass of the select loop that ends the wait
RecvSelect ==
    /\ tp = "r_select"
    /\ IF sentinel_fd = "None"
       THEN RecvRaise(tcl2py_fd, "TypeError")
       ELSE IF SentinelReadable
       THEN RecvRaise(tcl2py_fd, "ChildProcessEarlyExit")
       ELSE /\ Len(t2p_buf) > 0
            /\ RecvRead
    /\ UNCHANGED << sentinel_fd, fifos, py2tcl_fd, op, permitted, send_data, touched,
                    state_at_call, sent, p2t_buf >>
    /\ UNCHANGED << sessionVars, childVars >>

(***************************************************************************)
(* bridge_server.py: BridgeServer.send / send_raw                          *)
(***************************************************************************)
\* a send_raw without its assertion
SendPrecondition_Missing == TRUE

\* bridge_server.py 112: the assertion on entry of send_raw
SendPrecondition == state = "WaitForSend"

\* bridge_server.py 156-158, 111-113: send is called
SendCall(m) ==
    /\ op' = "send"
    /\ send_data' = m
    /\ state_at_call' = state
    /\ retmsg' = << >>
    /\ retcls' = ""
    /\ touched' = FALSE
    /\ IF ~SendPrecondition
       THEN tp' = "ret" /\ ret' = "AssertionError" /\ UNCHANGED py2tcl_fd
       ELSE tp' = "s_loop" /\ ret' = "none" /\ py2tcl_fd' = "unset"
    /\ UNCHANGED << state, sentinel_fd, fifos, tcl2py_fd, permitted >>

\* bridge_server.py 121-133: send_raw raises e from its retry loop, which is outside
\* the try block: no descriptor is open and no finally runs
SendLoopRaise(e) ==
    /\ ret' = e
    /\ tp' = "ret"
    /\ UNCHANGED << py2tcl_fd, state, sent, p2t_buf, touched >>

\* send_raw ends by raising e from inside the try block
SendRaise(fd, e) ==
    LET f == FinallyClose(fd, e) IN
    /\ py2tcl_fd' = f.fd
    /\ ret' = f.exc
    /\ tp' = "ret"
    /\ UNCHANGED << state, sent, p2t_buf, touched >>

\* bridge_server.py 120-127, 134: the sentinel check and the non-blocking open
SendLoop ==
    /\ tp = "s_loop"
    /\ IF sentinel_fd = "None"
       THEN SendLoopRaise("TypeError")
       ELSE IF SentinelReadable
       THEN SendLoopRaise("ChildProcessEarlyExit")
       ELSE IF ChildReading
       THEN /\ py2tcl_fd' = "open"
            /\ touched' = TRUE
            /\ tp' = "s_write"
            /\ UNCHANGED << ret, state, sent, p2t_buf >>
       ELSE /\ tp' = "s_wait"
            /\ UNCHANGED << py2tcl_fd, ret, state, sent, p2t_buf, touched >>
    /\ UNCHANGED << sentinel_fd, fifos, tcl2py_fd, op, permitted, send_data, retmsg, retcls,
                    state_at_call, recvd, t2p_buf >>
    /\ UNCHANGED << sessionVars, childVars >>

\* a send_raw that gives up when the first wait has passed without a reader
SendWait_TimesOut ==
    /\ tp = "s_wait"
    /\ SendLoopRaise(IF SentinelReadable THEN "ChildProcessEarlyExit" ELSE "TimeoutError")
    /\ UNCHANGED << sentinel_fd, fifos, tcl2py_fd, op, permitted, send_data, retmsg, retcls,
                    state_at_call, recvd, t2p_buf >>
    /\ UNCHANGED << sessionVars, childVars >>

\* bridge_server.py 128-132: ENXIO, the 10 ms select on the sentinel, then retry
SendWait ==
    /\ tp = "s_wait"
    /\ IF SentinelReadable
       THEN SendLoopRaise("ChildProcessEarlyExit")
       ELSE /\ tp' = "s_loop"
            /\ UNCHANGED << py2tcl_fd, ret, state, sent, p2t_buf, touched >>
    /\ UNCHANGED << sentinel_fd, fifos, tcl2py_fd, op, permitted, send_data, retmsg, retcls,
                    state_at_call, recvd, t2p_buf >>
    /\ UNCHANGED << sessionVars, childVars >>

\* bridge_server.py 136-150: the write through the file object.  With no reader the
\* flush raises BrokenPipeError, the file object closes the descriptor on leaving
\* the with block, "except BrokenPipeError" raises ChildProcessEarlyExit, and the
\* finally block closes the descriptor a second time
SendWrite ==
    /\ tp = "s_write"
    /\ IF ChildReading
       THEN /\ p2t_buf' = << send_to_pipe(send_data) >>
            /\ py2tcl_fd' = "-1"
            /\ state' = "WaitForRecv"
            /\ sent' = Append(sent, send_data)
            /\ ret' = "ok"
            /\ tp' = "ret"
            /\ UNCHANGED touched
       ELSE SendRaise("stale", "ChildProcessEarlyExit")
    /\ UNCHANGED << sentinel_fd, fifos, tcl2py_fd, op, permitted, send_data, retmsg, retcls,
                    state_at_call, recvd, t2p_buf >>
    /\ UNCHANGED << sessionVars, childVars >>

\* a scope entry that creates the FIFOs and forgets to change the state
BridgeEnter_KeepsState ==
    /\ state = "NotListening"
    /\ fifos' = TRUE
    /\ state' = state

\* bridge_server.py 55-65: entering the scope of the BridgeServer
BridgeEnter ==
    /\ state = "NotListening"
    /\ fifos' = TRUE
    /\ state' = "WaitForRecv"

\* a scope exit that does not close the sentinel descriptor
BridgeExit_LeaksSentinel ==
    /\ sentinel_fd' = sentinel_fd
    /\ state' = "NotListening"
    /\ fifos' = FALSE

\* bridge_server.py 66-72 and the TemporaryDirectory: leaving the scope
BridgeExit ==
    /\ sentinel_fd' = IF sentinel_fd # "None" THEN "closed" ELSE sentinel_fd
    /\ state' = "NotListening"
    /\ fifos' = FALSE

\* an open_sentinel that leaves self.sentinel_fd as it is
open_sentinel_NoOp == sentinel_fd' = sentinel_fd

\* bridge_server.py 44-47: open_sentinel
open_sentinel == sentinel_fd' = "open"

(***************************************************************************)
(* The child.  Its message loop is that of bridge_client.py (BridgeClient. *)
(* run); that it opens the sentinel for writing before it sends TclHello,  *)
(* keeps it open, and what PyExit and exit do are the companion script's.  *)
(***************************************************************************)
\* the child process ends with exit code c: every descriptor it holds is closed
ChildDies(c) ==
    /\ child' = "dead"
    /\ child_rc' = c
    /\ sentinel_w' = IF sentinel_w = "open" THEN "closed" ELSE sentinel_w
    /\ died_at' = pc

\* the blocking open of the sentinel for writing returns once a reader exists
ChildOpenSentinel ==
    /\ child = "running" /\ cpc = "c_start"
    /\ sentinel_fd = "open"
    /\ sentinel_w' = "open"
    /\ c_reply' = TclHello
    /\ cpc' = "c_send"
    /\ UNCHANGED << child, child_rc, cmd_count, child_seen, died_at >>
    /\ UNCHANGED << bridgeVars, sessionVars, pipeVars, histVars >>

\* bridge_client.py 11-13: open tcl2py for writing (blocks until the driver has it
\* open for reading), write the frame, close
ChildSend ==
    /\ child = "running" /\ cpc = "c_send"
    /\ tcl2py_fd = "open"
    /\ t2p_buf' = << send_to_pipe(c_reply) >>
    /\ cpc' = "c_open"
    /\ UNCHANGED << child, child_rc, sentinel_w, cmd_count, c_reply, child_seen, died_at >>
    /\ UNCHANGED << bridgeVars, sessionVars, p2t_buf, histVars >>

\* bridge_client.py 19: the child enters its blocking open of py2tcl for reading; from
\* then on the driver's non-blocking open for writing succeeds
ChildOpenRead ==
    /\ child = "running" /\ cpc = "c_open"
    /\ cpc' = "c_recv"
    /\ UNCHANGED << child, child_rc, sentinel_w, cmd_count, c_reply, child_seen, died_at >>
    /\ UNCHANGED << bridgeVars, sessionVars, pipeVars, histVars >>

\* bridge_client.py 16-21, 26-34: read one frame from py2tcl and act on it
ChildRecv ==
    /\ child = "running" /\ cpc = "c_recv"
    /\ Len(p2t_buf) > 0
    /\ LET m == from_pipe(p2t_buf[1]).msg IN
       /\ child_seen' = Append(child_seen, m)
       /\ p2t_buf' = << >>
       /\ IF Get(m, "class") = "PyExit"
          THEN /\ cpc' = IF Get(m, "quit") = "1" THEN "c_quit" ELSE "c_interactive"
               /\ UNCHANGED << child, child_rc, sentinel_w, cmd_count, c_reply, died_at >>
          ELSE LET cmd == Get(m, "command") IN
               IF IsExit(cmd)
               THEN /\ ChildDies(ExitArg(cmd))
                    /\ UNCHANGED << cpc, cmd_count, c_reply >>
               ELSE /\ c_reply' = TclProcedureResult(TclEval(cmd)[2], TclEval(cmd)[1],
                                                     ToString(cmd_count))
                    /\ cmd_count' = cmd_count + 1
                    /\ cpc' = "c_send"
                    /\ UNCHANGED << child, child_rc, sentinel_w, died_at >>
    /\ UNCHANGED << bridgeVars, sessionVars, t2p_buf, histVars >>

\* the child process ends at any moment: it quits after PyExit, the user leaves the
\* interactive tool, or it fails
ChildExit ==
    /\ child = "running"
    /\ \E c \in ExitCodes : ChildDies(c)
    /\ p2t_buf' = << >>
    /\ UNCHANGED << cpc, cmd_count, c_reply, child_seen >>
    /\ UNCHANGED << bridgeVars, sessionVars, t2p_buf, histVars >>

(***************************************************************************)
(* tcltool.py: TclTool.contextmanager, TclTool.eval and the scope body     *)
(***************************************************************************)
\* exceptions a scope body raises by itself between two evaluations
BodyExceptions == { "ValueError", "KeyboardInterrupt" }

\* tcltool.py 207, bridge_server.py 160-163: the BridgeServer scope is entered
Enter ==
    /\ pc = "init"
    /\ BridgeEnter
    /\ pc' = "spawn"
    /\ UNCHANGED << sentinel_fd, tcl2py_fd, py2tcl_fd, op, tp, permitted, send_data, ret, retmsg, retcls,
                    touched, state_at_call >>
    /\ UNCHANGED << interact, abort_on_error, callVars, pairVars, tcl_error, child_exited_early, quit, exc, body_exc,
                    teardown_exc, rc, exc_rc, exc_cmd, cur_cmd, handles, calls >>
    /\ UNCHANGED << childVars, pipeVars, histVars >>

\* tcltool.py 221: subprocess.Popen
Popen ==
    /\ pc = "spawn"
    /\ child' = "running"
    /\ cpc' = "c_start"
    /\ pc' = "open_sentinel"
    /\ UNCHANGED << child_rc, sentinel_w, cmd_count, c_reply, child_seen, died_at >>
    /\ UNCHANGED << interact, abort_on_error, callVars, pairVars, tcl_error, child_exited_early, quit, exc, body_exc,
                    teardown_exc, rc, exc_rc, exc_cmd, cur_cmd, handles, calls >>
    /\ UNCHANGED << bridgeVars, pipeVars, histVars >>

\* a contextmanager that does not call open_sentinel
OpenSentinel_Skipped ==
    /\ pc = "open_sentinel"
    /\ quit' = ~interact
    /\ pc' = "call_hello"
    /\ UNCHANGED << interact, abort_on_error, callVars, pairVars, tcl_error, child_exited_early, exc, body_exc,
                    teardown_exc, rc, exc_rc, exc_cmd, cur_cmd, handles, calls >>
    /\ UNCHANGED << bridgeVars, childVars, pipeVars, histVars >>

\* tcltool.py 228-230: self.bs.open_sentinel(); quit = not self.interact
OpenSentinel ==
    /\ pc = "open_sentinel"
    /\ open_sentinel
    /\ quit' = ~interact
    /\ pc' = "call_hello"
    /\ UNCHANGED << state, fifos, tcl2py_fd, py2tcl_fd, op, tp, permitted, send_data, ret, retmsg, retcls,
                    touched, state_at_call >>
    /\ UNCHANGED << interact, abort_on_error, callVars, pairVars, tcl_error, child_exited_early, exc, body_exc,
                    teardown_exc, rc, exc_rc, exc_cmd, cur_cmd, handles, calls >>
    /\ UNCHANGED << childVars, pipeVars, histVars >>

\* tcltool.py 233: self.bs.recv(msg.TclHello) is called
CallHello ==
    /\ pc = "call_hello"
    /\ RecvCall(<< "TclHello" >>)
    /\ pc' = "hello"
    /\ UNCHANGED << interact, abort_on_error, callVars, pairVars, tcl_error, child_exited_early, quit, exc, body_exc,
                    teardown_exc, rc, exc_rc, exc_cmd, cur_cmd, handles, calls >>
    /\ UNCHANGED << childVars, pipeVars, histVars >>

\* a contextmanager that yields to the body whatever recv(TclHello) did
HelloRet_IgnoresFailure ==
    /\ pc = "hello" /\ tp = "ret"
    /\ tp' = "idle"
    /\ pc' = "body"
    /\ UNCHANGED << child_exited_early, exc >>
    /\ UNCHANGED << state, sentinel_fd, fifos, tcl2py_fd, py2tcl_fd, op, permitted, send_data, ret,
                    retmsg, retcls, touched, state_at_call >>
    /\ UNCHANGED << interact, abort_on_error, callVars, pairVars, tcl_error, quit, body_exc,
                    teardown_exc, rc, exc_rc, exc_cmd, cur_cmd, handles, calls >>
    /\ UNCHANGED << childVars, pipeVars, histVars >>

\* tcltool.py 233-237, 251-253: recv(TclHello) returns or raises
HelloRet ==
    /\ pc = "hello" /\ tp = "ret"
    /\ tp' = "idle"
    /\ IF ret = "ok"
       THEN /\ pc' = "body"
            /\ UNCHANGED << child_exited_early, exc >>
       ELSE /\ child_exited_early' = (ret = "ChildProcessEarlyExit")
            /\ exc' = ret
            /\ pc' = "finally"
    /\ UNCHANGED << state, sentinel_fd, fifos, tcl2py_fd, py2tcl_fd, op, permitted, send_data, ret,
                    retmsg, retcls, touched, state_at_call >>
    /\ UNCHANGED << interact, abort_on_error, callVars, pairVars, tcl_error, quit, body_exc,
                    teardown_exc, rc, exc_rc, exc_cmd, cur_cmd, handles, calls >>
    /\ UNCHANGED << childVars, pipeVars, histVars >>

\* tcltool.py 238-250: the handlers around the yield, for exception e raised in the body
BodyExcept(e) ==
    /\ child_exited_early' = (e = "ChildProcessEarlyExit")
    /\ quit' = IF e # "ChildProcessEarlyExit" /\ IsException(e) /\ abort_on_error
               THEN TRUE ELSE quit
    /\ body_exc' = e
    /\ exc' = e
    /\ pc' = "finally"

\* the body evaluates cmd.  tcltool.py 368-369: eval calls send(PyProcedureCall)
BodyEval ==
    /\ pc = "body"
    /\ calls < MaxEvals
    /\ \E cmd \in Cmds :
        /\ cur_cmd' = cmd
        /\ SendCall(PyProcedureCall(cmd))
    /\ calls' = calls + 1
    /\ pc' = "eval_send"
    /\ UNCHANGED << interact, abort_on_error, callVars, pairVars, tcl_error, child_exited_early, quit, exc, body_exc,
                    teardown_exc, rc, exc_rc, exc_cmd, handles >>
    /\ UNCHANGED << childVars, pipeVars, histVars >>

\* tcltool.py 369-370: send returns and recv(TclProcedureResult) is called, or send raises
EvalSendRet ==
    /\ pc = "eval_send" /\ tp = "ret"
    /\ IF ret = "ok"
       THEN /\ RecvCall(<< "TclProcedureResult" >>)
            /\ pc' = "eval_recv"
            /\ UNCHANGED << child_exited_early, quit, body_exc, exc >>
       ELSE /\ BodyExcept(ret)
            /\ tp' = "idle"
            /\ UNCHANGED << state, sentinel_fd, fifos, tcl2py_fd, py2tcl_fd, op, permitted,
                            send_data, ret, retmsg, retcls, touched, state_at_call >>
    /\ UNCHANGED << interact, abort_on_error, callVars, pairVars, tcl_error, teardown_exc, rc, exc_rc, exc_cmd, cur_cmd,
                    handles, calls >>
    /\ UNCHANGED << childVars, pipeVars, histVars >>

\* a constructor call with value and cmd exchanged
TclRemoteObjRef_Swapped(cmd_idx, value, cmd) == [cmd_idx |-> cmd_idx, value |-> cmd, cmd |-> value]

\* tclobj.py 44-48: TclRemoteObjRef(tool, cmd_idx, value, cmd)
TclRemoteObjRef(cmd_idx, value, cmd) == [cmd_idx |-> cmd_idx, value |-> value, cmd |-> cmd]

\* an error code that is never taken for an error
RaisesTclError_Never(err_code) == FALSE

\* tcltool.py 374: if err_code
RaisesTclError(err_code) == err_code # 0

\* tcltool.py 370-379: recv returns or raises; err_code decides between TclError and
\* a handle.  A TclError is caught by the body or leaves it
EvalRecvRet ==
    /\ pc = "eval_recv" /\ tp = "ret"
    /\ tp' = "idle"
    /\ IF ret # "ok"
       THEN BodyExcept(ret) /\ UNCHANGED << handles, tcl_error >>
       ELSE IF ~HasKey(retmsg, "cmd_idx") \/ ~HasKey(retmsg, "err_code")
       THEN BodyExcept("KeyError") /\ UNCHANGED << handles, tcl_error >>
       ELSE IF RaisesTclError(IntOf(Get(retmsg, "err_code")))
       THEN /\ UNCHANGED handles
            /\ tcl_error' = << Get(retmsg, "result") >>
            /\ \/ BodyExcept("TclError")
               \/ /\ pc' = "body"
                  /\ UNCHANGED << child_exited_early, quit, body_exc, exc >>
       ELSE /\ handles' = Append(handles, TclRemoteObjRef(IntOf(Get(retmsg, "cmd_idx")),
                                                          Get(retmsg, "result"), cur_cmd))
            /\ pc' = "body"
            /\ UNCHANGED << child_exited_early, quit, body_exc, exc, tcl_error >>
    /\ UNCHANGED << state, sentinel_fd, fifos, tcl2py_fd, py2tcl_fd, op, permitted, send_data, ret,
                    retmsg, retcls, touched, state_at_call >>
    /\ UNCHANGED << interact, abort_on_error, callVars, pairVars, teardown_exc, rc, exc_rc, exc_cmd, cur_cmd,
                    calls >>
    /\ UNCHANGED << childVars, pipeVars, histVars >>

\* the body raises an exception of its own between two evaluations
BodyRaise ==
    /\ pc = "body"
    /\ \E e \in BodyExceptions : BodyExcept(e)
    /\ UNCHANGED << interact, abort_on_error, callVars, pairVars, tcl_error, teardown_exc, rc, exc_rc, exc_cmd, cur_cmd,
                    handles, calls >>
    /\ UNCHANGED << bridgeVars, childVars, pipeVars, histVars >>

\* the driver is interrupted (SIGINT) while an evaluation waits inside recv or send:
\* KeyboardInterrupt is raised at the select, the finally block closes the descriptor
Interrupt ==
    /\ pc \in { "eval_send", "eval_recv" }
    /\ \/ /\ tp = "r_select"
          /\ RecvRaise(tcl2py_fd, "KeyboardInterrupt")
          /\ UNCHANGED << py2tcl_fd, touched, sent, p2t_buf >>
       \/ /\ tp \in { "s_loop", "s_wait" }
          /\ SendLoopRaise("KeyboardInterrupt")
          /\ UNCHANGED << tcl2py_fd, retmsg, retcls, recvd, t2p_buf >>
    /\ UNCHANGED << sentinel_fd, fifos, op, permitted, send_data, state_at_call >>
    /\ UNCHANGED << sessionVars, childVars >>

\* the body ends normally
BodyEnd ==
    /\ pc = "body"
    /\ pc' = "finally"
    /\ UNCHANGED << interact, abort_on_error, callVars, pairVars, tcl_error, child_exited_early, quit, exc, body_exc,
                    teardown_exc, rc, exc_rc, exc_cmd, cur_cmd, handles, calls >>
    /\ UNCHANGED << bridgeVars, childVars, pipeVars, histVars >>

\* a quit field with its two values exchanged
QuitField_Swapped(q) == IF q THEN "0" ELSE "1"

\* tcltool.py 261: the value of the quit field
QuitField(q) == IF q THEN "1" ELSE "0"

\* a finally block that sends PyExit without looking at child_exited_early
Finally_AlwaysSends ==
    /\ pc = "finally"
    /\ SendCall(PyExit(QuitField(quit)))
    /\ pc' = "pyexit"
    /\ UNCHANGED << interact, abort_on_error, callVars, pairVars, tcl_error, child_exited_early, quit, exc, body_exc,
                    teardown_exc, rc, exc_rc, exc_cmd, cur_cmd, handles, calls >>
    /\ UNCHANGED << childVars, pipeVars, histVars >>

\* tcltool.py 254-261: the finally block sends PyExit unless early death was seen
Finally ==
    /\ pc = "finally"
    /\ IF ~child_exited_early
       THEN /\ SendCall(PyExit(QuitField(quit)))
            /\ pc' = "pyexit"
       ELSE /\ pc' = "wait"
            /\ UNCHANGED bridgeVars
    /\ UNCHANGED << interact, abort_on_error, callVars, pairVars, tcl_error, child_exited_early, quit, exc, body_exc,
                    teardown_exc, rc, exc_rc, exc_cmd, cur_cmd, handles, calls >>
    /\ UNCHANGED << childVars, pipeVars, histVars >>

\* tcltool.py 260-263: send(PyExit) returns or raises; only ChildProcessEarlyExit is
\* caught, any other exception leaves the finally block at once
PyExitRet ==
    /\ pc = "pyexit" /\ tp = "ret"
    /\ tp' = "idle"
    /\ IF ret = "ok"
       THEN /\ pc' = "wait"
            /\ UNCHANGED << child_exited_early, exc, teardown_exc >>
       ELSE IF ret = "ChildProcessEarlyExit"
       THEN /\ child_exited_early' = TRUE
            /\ pc' = "wait"
            /\ UNCHANGED << exc, teardown_exc >>
       ELSE /\ exc' = ret
            /\ teardown_exc' = ret
            /\ pc' = "bridge_exit"
            /\ UNCHANGED child_exited_early
    /\ UNCHANGED << state, sentinel_fd, fifos, tcl2py_fd, py2tcl_fd, op, permitted, send_data, ret,
                    retmsg, retcls, touched, state_at_call >>
    /\ UNCHANGED << interact, abort_on_error, callVars, pairVars, tcl_error, quit, body_exc, rc, exc_rc, exc_cmd, cur_cmd,
                    handles, calls >>
    /\ UNCHANGED << childVars, pipeVars, histVars >>

\* a finally block that tests child_exited_early the wrong way round
RaisesCalledProcessError_Inverted(early, r) == early /\ r # 0

\* tcltool.py 268-274: whether the finally block raises CalledProcessError for code r
RaisesCalledProcessError(early, r) == ~early /\ r # 0

\* tcltool.py 266-274: proc.wait() returns once the child has exited
Wait ==
    /\ pc = "wait"
    /\ child = "dead"
    /\ rc' = child_rc
    /\ IF RaisesCalledProcessError(child_exited_early, child_rc)
       THEN /\ exc' = "CalledProcessError"
            /\ teardown_exc' = "CalledProcessError"
            /\ exc_rc' = child_rc
            /\ exc_cmd' = Cmdline
       ELSE UNCHANGED << exc, teardown_exc, exc_rc, exc_cmd >>
    /\ pc' = "bridge_exit"
    /\ UNCHANGED << interact, abort_on_error, callVars, pairVars, tcl_error, child_exited_early, quit, body_exc, cur_cmd,
                    handles, calls >>
    /\ UNCHANGED << bridgeVars, childVars, pipeVars, histVars >>

\* tcltool.py 207, bridge_server.py 66-72, 165-169: the BridgeServer scope is left
Leave ==
    /\ pc = "bridge_exit"
    /\ BridgeExit
    /\ pc' = "done"
    /\ UNCHANGED << tcl2py_fd, py2tcl_fd, op, tp, permitted, send_data, ret, retmsg, retcls,
                    touched, state_at_call >>
    /\ UNCHANGED << interact, abort_on_error, callVars, pairVars, tcl_error, child_exited_early, quit, exc, body_exc,
                    teardown_exc, rc, exc_rc, exc_cmd, cur_cmd, handles, calls >>
    /\ UNCHANGED << childVars, pipeVars, histVars >>

\* the state after TclTool.__init__ and BridgeServer.__init__
Init ==
    /\ interact \in BOOLEAN
    /\ abort_on_error \in BOOLEAN
    /\ state = "NotListening"
    /\ sentinel_fd = "None"
    /\ fifos = FALSE
    /\ tcl2py_fd = "unset"
    /\ py2tcl_fd = "unset"
    /\ op = "none"
    /\ tp = "idle"
    /\ permitted = << >>
    /\ send_data = << >>
    /\ ret = "none"
    /\ retmsg = << >>
    /\ retcls = ""
    /\ touched = FALSE
    /\ state_at_call = "NotListening"
    /\ pc = "init"
    /\ child_exited_early = FALSE
    /\ quit = FALSE
    /\ exc = "none"
    /\ body_exc = "none"
    /\ teardown_exc = "none"
    /\ rc = -1
    /\ exc_rc = -1
    /\ exc_cmd = << >>
    /\ cur_cmd = ""
    /\ handles = << >>
    /\ tcl_error = << >>
    /\ call = NoCall
    /\ built = NoResult
    /\ PairUnused
    /\ died_at = ""
    /\ child = "unspawned"
    /\ cpc = "c_start"
    /\ child_rc = -1
    /\ sentinel_w = "never"
    /\ cmd_count = 0
    /\ c_reply = << >>
    /\ t2p_buf = << >>
    /\ p2t_buf = << >>
    /\ sent = << >>
    /\ recvd = << >>
    /\ child_seen = << >>
    /\ calls = 0

Next ==
    \/ Enter \/ Popen \/ OpenSentinel \/ CallHello \/ HelloRet
    \/ BodyEval \/ EvalSendRet \/ EvalRecvRet \/ BodyRaise \/ Interrupt \/ BodyEnd
    \/ Finally \/ PyExitRet \/ Wait \/ Leave
    \/ RecvSelect \/ SendLoop \/ SendWait \/ SendWrite
    \/ ChildOpenSentinel \/ ChildSend \/ ChildOpenRead \/ ChildRecv \/ ChildExit

Spec == Init /\ [][Next]_vars

\* the steps the driver takes by itself once it is scheduled
DriverStep ==
    \/ Enter \/ Popen \/ OpenSentinel \/ CallHello \/ HelloRet
    \/ EvalSendRet \/ EvalRecvRet \/ Finally \/ PyExitRet \/ Wait \/ Leave
    \/ RecvSelect \/ SendLoop \/ SendWait \/ SendWrite

\* the steps of a child that is alive
ChildStep == ChildOpenSentinel \/ ChildSend \/ ChildOpenRead \/ ChildRecv

\* both processes are scheduled by the operating system: a step that stays possible
\* is eventually taken.  Nothing forces the child to exit, the body to raise or an
\* interrupt to arrive
FairSpec == Init /\ [][Next]_vars /\ WF_vars(DriverStep) /\ WF_vars(ChildStep)

(***************************************************************************)
(* A direct caller of BridgeServer, after tests/test_bridge.py: it enters  *)
(* the scope, starts the child, opens the sentinel, and calls recv and     *)
(* send in any order and in any state of the transport.                    *)
(***************************************************************************)
\* the classes and messages the direct caller passes
CallerClasses ==
    { << "TclHello" >>, << "TclProcedureResult" >>, << "TclProcedureResult", "TclHello" >> }

CallerMessages == { PyProcedureCall("expr 1+1"), PyProcedureCall(ExitCmd(0)), PyExit("1") }

\* tests/test_bridge.py 10: with BridgeServer() as bs
CallerEnter ==
    /\ pc = "c_init"
    /\ BridgeEnter
    /\ pc' = "c_scope"
    /\ UNCHANGED << sentinel_fd, tcl2py_fd, py2tcl_fd, op, tp, permitted, send_data, ret, retmsg, retcls,
                    touched, state_at_call >>
    /\ UNCHANGED << interact, abort_on_error, callVars, pairVars, tcl_error, child_exited_early, quit, exc, body_exc,
                    teardown_exc, rc, exc_rc, exc_cmd, cur_cmd, handles, calls >>
    /\ UNCHANGED << childVars, pipeVars, histVars >>

\* tests/test_bridge.py 11-13: the client is started inside the scope
CallerStart ==
    /\ pc = "c_scope"
    /\ child = "unspawned"
    /\ child' = "running"
    /\ cpc' = "c_start"
    /\ UNCHANGED << child_rc, sentinel_w, cmd_count, c_reply, child_seen, died_at >>
    /\ UNCHANGED << bridgeVars, sessionVars, pipeVars, histVars >>

\* bridge_server.py 44-47: the caller opens the sentinel
CallerOpenSentinel ==
    /\ pc = "c_scope"
    /\ sentinel_fd = "None"
    /\ tp \in { "idle", "ret" }
    /\ open_sentinel
    /\ UNCHANGED << state, fifos, tcl2py_fd, py2tcl_fd, op, tp, permitted, send_data, ret, retmsg, retcls,
                    touched, state_at_call >>
    /\ UNCHANGED << sessionVars, childVars, pipeVars, histVars >>

\* tests/test_bridge.py 22, 27: bs.recv(cls), in whatever state the transport is
CallerRecv ==
    /\ tp \in { "idle", "ret" }
    /\ calls < MaxCalls
    /\ \E cls \in CallerClasses : RecvCall(cls)
    /\ calls' = calls + 1
    /\ UNCHANGED << interact, abort_on_error, callVars, pairVars, tcl_error, pc, child_exited_early, quit, exc, body_exc,
                    teardown_exc, rc, exc_rc, exc_cmd, cur_cmd, handles >>
    /\ UNCHANGED << childVars, pipeVars, histVars >>

\* tests/test_bridge.py 26, 30: bs.send(m), in whatever state the transport is
CallerSend ==
    /\ tp \in { "idle", "ret" }
    /\ calls < MaxCalls
    /\ \E m \in CallerMessages : SendCall(m)
    /\ calls' = calls + 1
    /\ UNCHANGED << interact, abort_on_error, callVars, pairVars, tcl_error, pc, child_exited_early, quit, exc, body_exc,
                    teardown_exc, rc, exc_rc, exc_cmd, cur_cmd, handles >>
    /\ UNCHANGED << childVars, pipeVars, histVars >>

\* bridge_server.py 66-72: the caller leaves the scope
CallerLeave ==
    /\ pc = "c_scope"
    /\ tp \in { "idle", "ret" }
    /\ BridgeExit
    /\ pc' = "c_left"
    /\ UNCHANGED << tcl2py_fd, py2tcl_fd, op, tp, permitted, send_data, ret, retmsg, retcls,
                    touched, state_at_call >>
    /\ UNCHANGED << interact, abort_on_error, callVars, pairVars, tcl_error, child_exited_early, quit, exc, body_exc,
                    teardown_exc, rc, exc_rc, exc_cmd, cur_cmd, handles, calls >>
    /\ UNCHANGED << childVars, pipeVars, histVars >>

BridgeInit ==
    /\ interact = FALSE
    /\ abort_on_error = TRUE
    /\ state = "NotListening"
    /\ sentinel_fd = "None"
    /\ fifos = FALSE
    /\ tcl2py_fd = "unset"
    /\ py2tcl_fd = "unset"
    /\ op = "none"
    /\ tp = "idle"
    /\ permitted = << >>
    /\ send_data = << >>
    /\ ret = "none"
    /\ retmsg = << >>
    /\ retcls = ""
    /\ touched = FALSE
    /\ state_at_call = "NotListening"
    /\ pc = "c_init"
    /\ child_exited_early = FALSE
    /\ quit = FALSE
    /\ exc = "none"
    /\ body_exc = "none"
    /\ teardown_exc = "none"
    /\ rc = -1
    /\ exc_rc = -1
    /\ exc_cmd = << >>
    /\ cur_cmd = ""
    /\ handles = << >>
    /\ tcl_error = << >>
    /\ call = NoCall
    /\ built = NoResult
    /\ PairUnused
    /\ died_at = ""
    /\ child = "unspawned"
    /\ cpc = "c_start"
    /\ child_rc = -1
    /\ sentinel_w = "never"
    /\ cmd_count = 0
    /\ c_reply = << >>
    /\ t2p_buf = << >>
    /\ p2t_buf = << >>
    /\ sent = << >>
    /\ recvd = << >>
    /\ child_seen = << >>
    /\ calls = 0

BridgeNext ==
    \/ CallerEnter \/ CallerStart \/ CallerOpenSentinel \/ CallerRecv \/ CallerSend
    \/ CallerLeave
    \/ RecvSelect \/ SendLoop \/ SendWait \/ SendWrite
    \/ ChildOpenSentinel \/ ChildSend \/ ChildOpenRead \/ ChildRecv \/ ChildExit

BridgeSpec == BridgeInit /\ [][BridgeNext]_vars

(***************************************************************************)
(* message.py on its own: a RawMessage is encoded by send_to_pipe, the      *)
(* bytes are decoded by from_pipe and the result is constructed into a     *)
(* typed message by to_message.                                            *)
(***************************************************************************)
\* largest number of keys of an input message
MaxKeys == 2

\* keys (all match the key grammar) and values (text, the empty text included)
CodecKeys == { "class", "quit", "command" }

CodecValues == { "", "1", "PyExit", "PyProcedureCall" }

\* the RawMessages with at most MaxKeys distinct keys
RawMessages ==
    UNION { { m \in [1..n -> CodecKeys \X CodecValues] :
                \A i, j \in 1..n : m[i][1] = m[j][1] => i = j } : n \in 0..MaxKeys }

\* the permitted_msg_classes passed to to_message
CodecPermitted == { << "PyExit" >>, << "PyProcedureCall" >>, << "PyProcedureCall", "PyExit" >> }

\* message.py 25-33: m.send_to_pipe(f_out)
CodecSend ==
    /\ pc = "m_init"
    /\ p2t_buf' = << send_to_pipe(send_data) >>
    /\ pc' = "m_sent"
    /\ UNCHANGED << bridgeVars, childVars, t2p_buf, histVars >>
    /\ UNCHANGED << interact, abort_on_error, callVars, pairVars, tcl_error, child_exited_early, quit, exc, body_exc,
                    teardown_exc, rc, exc_rc, exc_cmd, cur_cmd, handles, calls >>

\* message.py 9-22: RawMessage.from_pipe(f_in) on the bytes written
CodecRead ==
    /\ pc = "m_sent"
    /\ LET r == from_pipe(p2t_buf[1]) IN
       /\ ret' = r.err
       /\ retmsg' = r.msg
    /\ pc' = "m_read"
    /\ UNCHANGED << state, sentinel_fd, fifos, tcl2py_fd, py2tcl_fd, op, tp, permitted,
                    send_data, retcls, touched, state_at_call >>
    /\ UNCHANGED << interact, abort_on_error, callVars, pairVars, tcl_error, child_exited_early, quit, exc, body_exc,
                    teardown_exc, rc, exc_rc, exc_cmd, cur_cmd, handles, calls >>
    /\ UNCHANGED << childVars, pipeVars, histVars >>

\* message.py 38-49: raw_message.to_message(permitted_msg_classes) on what was decoded
CodecConstruct ==
    /\ pc = "m_read" /\ ret = "ok"
    /\ LET t == to_message(retmsg, permitted) IN
       /\ ret' = t.err
       /\ retcls' = t.cls
    /\ pc' = "m_typed"
    /\ UNCHANGED << state, sentinel_fd, fifos, tcl2py_fd, py2tcl_fd, op, tp, permitted,
                    send_data, retmsg, touched, state_at_call >>
    /\ UNCHANGED << interact, abort_on_error, callVars, pairVars, tcl_error, child_exited_early, quit, exc, body_exc,
                    teardown_exc, rc, exc_rc, exc_cmd, cur_cmd, handles, calls >>
    /\ UNCHANGED << childVars, pipeVars, histVars >>

CodecInit ==
    /\ interact = FALSE
    /\ abort_on_error = TRUE
    /\ state = "NotListening"
    /\ sentinel_fd = "None"
    /\ fifos = FALSE
    /\ tcl2py_fd = "unset"
    /\ py2tcl_fd = "unset"
    /\ op = "none"
    /\ tp = "idle"
    /\ permitted \in CodecPermitted
    /\ send_data \in RawMessages
    /\ ret = "none"
    /\ retmsg = << >>
    /\ retcls = ""
    /\ touched = FALSE
    /\ state_at_call = "NotListening"
    /\ pc = "m_init"
    /\ child_exited_early = FALSE
    /\ quit = FALSE
    /\ exc = "none"
    /\ body_exc = "none"
    /\ teardown_exc = "none"
    /\ rc = -1
    /\ exc_rc = -1
    /\ exc_cmd = << >>
    /\ cur_cmd = ""
    /\ handles = << >>
    /\ tcl_error = << >>
    /\ call = NoCall
    /\ built = NoResult
    /\ PairUnused
    /\ died_at = ""
    /\ child = "unspawned"
    /\ cpc = "c_start"
    /\ child_rc = -1
    /\ sentinel_w = "never"
    /\ cmd_count = 0
    /\ c_reply = << >>
    /\ t2p_buf = << >>
    /\ p2t_buf = << >>
    /\ sent = << >>
    /\ recvd = << >>
    /\ child_seen = << >>
    /\ calls = 0

CodecNext == CodecSend \/ CodecRead \/ CodecConstruct

CodecSpec == CodecInit /\ [][CodecNext]_vars

(***************************************************************************)
(* encode applied to Python values: EncodeSpec draws a value and the       *)
(* nested flag, and encode is called on them once.                         *)
(***************************************************************************)
SeqsUpTo(S, n) == UNION { [1..k -> S] : k \in 0..n }

\* str values: empty, plain, with braces, with a space
Texts == { << >>, << "a" >>, << "{" >>, << "a", "}", " ", "b" >> }

Scalars == { PyStr(x) : x \in Texts } \cup { PyInt(7), PyBool(TRUE) }

\* handles as eval returns them: cmd_idx counts the evaluations, the value is any text
Refs == { PyRef(k, v) : k \in 0..MaxEvals, v \in { << "2" >>, << "{", "x", "}" >> } }

Atoms == Scalars \cup Refs

DictKeys == { PyStr(<< "k" >>), PyInt(1) }

\* key lists of a dict: no key twice
KeyLists == { ks \in SeqsUpTo(DictKeys, MaxItems) :
                \A i, j \in 1..Len(ks) : i # j => ks[i] # ks[j] }

\* lists, tuples and dicts of scalars and handles
FlatContainers ==
    { PyList(l) : l \in SeqsUpTo(Atoms, MaxItems) }
    \cup { PyTuple(l) : l \in SeqsUpTo(Atoms, 1) }
    \cup UNION { { PyDict(ks, vs) : vs \in [1..Len(ks) -> Atoms] } : ks \in KeyLists }

\* containers inside containers
NestedContainers ==
    { PyList(<< f >>) : f \in FlatContainers }
    \cup { PyList(<< PyStr(<< "a" >>), f >>) : f \in FlatContainers }
    \cup { PyDict(<< PyStr(<< "k" >>) >>, << f >>) : f \in FlatContainers }

Objects == Atoms \cup FlatContainers \cup NestedContainers

\* the session, the transport and the child are not involved
SessionUnused ==
    /\ interact = FALSE
    /\ abort_on_error = TRUE
    /\ child_exited_early = FALSE
    /\ quit = FALSE
    /\ exc = "none"
    /\ body_exc = "none"
    /\ teardown_exc = "none"
    /\ rc = -1
    /\ exc_rc = -1
    /\ exc_cmd = << >>
    /\ cur_cmd = ""
    /\ handles = << >>
    /\ tcl_error = << >>
    /\ calls = 0

TransportUnused ==
    /\ state = "NotListening"
    /\ sentinel_fd = "None"
    /\ fifos = FALSE
    /\ tcl2py_fd = "unset"
    /\ py2tcl_fd = "unset"
    /\ op = "none"
    /\ tp = "idle"
    /\ permitted = << >>
    /\ send_data = << >>
    /\ ret = "none"
    /\ retmsg = << >>
    /\ retcls = ""
    /\ touched = FALSE
    /\ state_at_call = "NotListening"
    /\ t2p_buf = << >>
    /\ p2t_buf = << >>
    /\ sent = << >>
    /\ recvd = << >>

ChildUnused ==
    /\ died_at = ""
    /\ child = "unspawned"
    /\ cpc = "c_start"
    /\ child_rc = -1
    /\ sentinel_w = "never"
    /\ cmd_count = 0
    /\ c_reply = << >>
    /\ child_seen = << >>

\* encode(obj, nested=...) is about to be called
EncodeInit ==
    /\ SessionUnused /\ TransportUnused /\ ChildUnused
    /\ pc = "e_init"
    /\ \E obj \in Objects, nested \in BOOLEAN :
          call = [NoCall EXCEPT !.fn = "encode", !.args = << obj >>, !.nested = nested]
    /\ built = NoResult
    /\ PairUnused

\* tclobj.py 127-144: the call of encode
EncodeCall ==
    /\ pc = "e_init"
    /\ built' = encode(call.args[1], call.nested)
    /\ pc' = "e_done"
    /\ UNCHANGED << bridgeVars, childVars, pipeVars, histVars, call >>
    /\ UNCHANGED << interact, abort_on_error, pairVars, tcl_error, child_exited_early, quit, exc, body_exc,
                    teardown_exc, rc, exc_rc, exc_cmd, cur_cmd, handles, calls >>

EncodeNext == EncodeCall

EncodeSpec == EncodeInit /\ [][EncodeNext]_vars

(***************************************************************************)
(* Procedure calls: CallSpec is a session whose scope body has just been   *)
(* entered (the handshake is done) and makes one call, either a method     *)
(* call on a handle (TclRemoteObjRef.proc_call) or TclTool.proc_call, and  *)
(* the evaluation that call starts runs to its end.                        *)
(***************************************************************************)
\* method and procedure names
ProcNames == { << "l", "i", "s", "t" >>, << "m", "y", "c", "m", "d" >> }

\* positional arguments: scalars, a handle, a list, and a dict encode cannot take
ProcArgs == { PyStr(<< "a" >>), PyInt(7), PyRef(1, << "{", "x", "}" >>),
              PyList(<< PyStr(<< "a" >>) >>), PyDict(<< >>, << >>) }

\* keyword arguments: switches and one with a value
KwKeys == { PyStr(<< "w" >>), PyStr(<< "v" >>) }

KwValues == { PyBool(TRUE), PyBool(FALSE), PyStr(<< "u", "p" >>) }

ProcKwargs ==
    UNION { { PyDict(ks, vs) : vs \in [1..Len(ks) -> KwValues] } :
            ks \in { l \in SeqsUpTo(KwKeys, MaxItems) :
                        \A i, j \in 1..Len(l) : i # j => l[i] # l[j] } }

\* values of TclTool.called_object_pos, one of them not allowed
ObjectPositions == { "first", "second", "last", "third" }

ProcCalls ==
    { [fn |-> "obj", called_object_pos |-> p, self |-> PyRef(0, << "l" >>), name |-> n,
       args |-> a, kwargs |-> k, nested |-> FALSE] :
         p \in ObjectPositions, n \in { << "m", "y", "c", "m", "d" >> },
         a \in SeqsUpTo(ProcArgs, MaxItems), k \in ProcKwargs }
    \cup
    { [fn |-> "tool", called_object_pos |-> "second", self |-> PyStr(<< >>), name |-> n,
       args |-> a, kwargs |-> k, nested |-> FALSE] :
         n \in ProcNames, a \in SeqsUpTo(ProcArgs, MaxItems), k \in ProcKwargs }

\* tcltool.py 196-237: the session at the yield: handshake done, the child waits for
\* the next message
CallInit ==
    /\ interact = FALSE
    /\ abort_on_error = TRUE
    /\ state = "WaitForSend"
    /\ sentinel_fd = "open"
    /\ fifos = TRUE
    /\ tcl2py_fd = "-1"
    /\ py2tcl_fd = "unset"
    /\ op = "recv"
    /\ tp = "idle"
    /\ permitted = << "TclHello" >>
    /\ send_data = << >>
    /\ ret = "ok"
    /\ retmsg = TclHello
    /\ retcls = "TclHello"
    /\ touched = TRUE
    /\ state_at_call = "WaitForRecv"
    /\ pc = "body"
    /\ child_exited_early = FALSE
    /\ quit = TRUE
    /\ exc = "none"
    /\ body_exc = "none"
    /\ teardown_exc = "none"
    /\ rc = -1
    /\ exc_rc = -1
    /\ exc_cmd = << >>
    /\ cur_cmd = ""
    /\ handles = << >>
    /\ tcl_error = << >>
    /\ call \in ProcCalls
    /\ built = NoResult
    /\ PairUnused
    /\ died_at = ""
    /\ child = "running"
    /\ cpc = "c_open"
    /\ child_rc = -1
    /\ sentinel_w = "open"
    /\ cmd_count = 0
    /\ c_reply = TclHello
    /\ t2p_buf = << >>
    /\ p2t_buf = << >>
    /\ sent = << >>
    /\ recvd = << TclHello >>
    /\ child_seen = << >>
    /\ calls = 0

\* tcltool.py 311-313, 368-369: proc_call builds the text and calls eval on it, which
\* calls send(PyProcedureCall); or encode raised and nothing is evaluated
ProcCallEval(cmd, args, kwargs) ==
    LET b == proc_call(cmd, args, kwargs) IN
    /\ built' = b
    /\ IF b.exc # "none"
       THEN /\ BodyExcept(b.exc)
            /\ UNCHANGED << bridgeVars, cur_cmd, calls >>
       ELSE /\ cur_cmd' = b.text
            /\ SendCall(PyProcedureCall(b.text))
            /\ calls' = calls + 1
            /\ pc' = "eval_send"
            /\ UNCHANGED << child_exited_early, quit, exc, body_exc >>

\* tclobj.py 102, 106-121: the body calls a method on a handle
ObjProcCall ==
    /\ pc = "body" /\ call.fn = "obj" /\ built = NoResult
    /\ LET c == TclRemoteObjRef_proc_call(call.self, call.called_object_pos, call.name, call.args) IN
       IF c.exc # "none"
       THEN /\ built' = [exc |-> c.exc, text |-> ""]
            /\ BodyExcept(c.exc)
            /\ UNCHANGED << bridgeVars, cur_cmd, calls >>
       ELSE ProcCallEval(c.cmd, c.args, call.kwargs)
    /\ UNCHANGED << interact, abort_on_error, call, pairVars, tcl_error, teardown_exc, rc, exc_rc, exc_cmd,
                    handles >>
    /\ UNCHANGED << childVars, pipeVars, histVars >>

\* tcltool.py 287-313: the body calls TclTool.proc_call
ToolProcCall ==
    /\ pc = "body" /\ call.fn = "tool" /\ built = NoResult
    /\ ProcCallEval(Text(call.name), call.args, call.kwargs)
    /\ UNCHANGED << interact, abort_on_error, call, pairVars, tcl_error, teardown_exc, rc, exc_rc, exc_cmd,
                    handles >>
    /\ UNCHANGED << childVars, pipeVars, histVars >>

CallNext ==
    \/ ObjProcCall \/ ToolProcCall \/ EvalSendRet \/ EvalRecvRet
    \/ RecvSelect \/ SendLoop \/ SendWait \/ SendWrite
    \/ ChildSend \/ ChildOpenRead \/ ChildRecv

CallSpec == CallInit /\ [][CallNext]_vars

(***************************************************************************)
(* PairSpec: two tool objects are entered, used and left by one driver     *)
(* thread in any order; a call on one of them runs to its end before the   *)
(* driver turns to the other, the two children run on their own.  A step   *)
(* here is one whole transport operation (recv or send) or one whole step  *)
(* of a child.                                                             *)
(***************************************************************************)
\* the value a session stores in the Tcl variable x
PairValues == { << "A" >>, << "B" >> }

\* t.set("x", v) and t.set("x") as proc_call builds them
SetCmd(v) == proc_call("set", << PyStr(<< "x" >>), PyStr(v) >>, PyDict(<< >>, << >>)).text

GetCmd == proc_call("set", << PyStr(<< "x" >>) >>, PyDict(<< >>, << >>)).text

PairCmds == { SetCmd(v) : v \in PairValues } \cup { GetCmd }

\* the child's Tcl interpreter: set x v stores and returns v, set x returns the value
\* stored or fails when x was never set
PairTclEval(x, cmd) ==
    IF cmd = GetCmd
    THEN IF x = << >> THEN [x |-> x, err_code |-> "1", result |-> "can't read x"]
         ELSE [x |-> x, err_code |-> "0", result |-> x[1]]
    ELSE LET v == CHOOSE w \in PairValues : cmd = SetCmd(w)
         IN  [x |-> << Text(v) >>, err_code |-> "0", result |-> Text(v)]

\* the driver thread is not inside a call on another tool object
DriverFree(s) ==
    \A t \in Sessions \ { s } : tools[t].pc \in { "out", "body", "left", "failed" }

\* a directory name that may be given out although a directory of that name exists
mkdtemp_AnyName(existing) == TmpNames

\* bridge_server.py 57: tempfile.TemporaryDirectory() creates a directory under a name
\* no existing directory has
mkdtemp(existing) == TmpNames \ existing

\* tcltool.py 207-221, bridge_server.py 55-65: the tool object is entered: temporary
\* directory, FIFOs, the child is spawned with the FIFO paths in its environment
PairEnter(s) ==
    /\ tools[s].pc = "out" /\ DriverFree(s)
    /\ tools[s].state = "NotListening"
    /\ \E d \in mkdtemp(tmp_dirs) :
          /\ tmp_dirs' = tmp_dirs \cup { d }
          /\ pipes' = [pipes EXCEPT ![d] = NoPipes]
          /\ tools' = [tools EXCEPT ![s] = [@ EXCEPT !.pc = "hello", !.state = "WaitForRecv",
                                                     !.tmp_dir = d]]
          /\ procs' = [procs EXCEPT ![s] = [NoProc EXCEPT !.alive = "running", !.dir = d]]

\* the child writes TclHello into the tcl2py FIFO its environment names
PairChildHello(s) ==
    /\ procs[s].alive = "running" /\ ~procs[s].hello_sent
    /\ pipes' = [pipes EXCEPT ![procs[s].dir].tcl2py = Append(@, TclHello)]
    /\ procs' = [procs EXCEPT ![s].hello_sent = TRUE]
    /\ UNCHANGED << tools, tmp_dirs >>

\* bridge_server.py 74-109, 152-154: recv on the tool's own tcl2py FIFO; the state
\* changes in recv_raw, then to_message checks the class
PairRecv(s, cls, pc_ok) ==
    LET d == tools[s].tmp_dir
        m == Head(pipes[d].tcl2py)
    IN  /\ tools[s].state = "WaitForRecv"
        /\ pipes[d].tcl2py # << >>
        /\ pipes' = [pipes EXCEPT ![d].tcl2py = Tail(@)]
        /\ tools' = [tools EXCEPT ![s] =
              IF to_message(m, << cls >>).err # "ok"
              THEN [@ EXCEPT !.pc = "failed", !.state = "WaitForSend"]
              ELSE IF cls = "TclHello"
              THEN [@ EXCEPT !.pc = pc_ok, !.state = "WaitForSend"]
              ELSE [@ EXCEPT !.pc = pc_ok, !.state = "WaitForSend",
                             !.results = Append(@, [cmd_idx |-> IntOf(Get(m, "cmd_idx")),
                                                    err_code |-> Get(m, "err_code"),
                                                    value |-> Get(m, "result")])]]

\* bridge_server.py 111-150, 156-158: send on the tool's own py2tcl FIFO
PairSend(s, m) ==
    /\ tools[s].state = "WaitForSend"
    /\ pipes' = [pipes EXCEPT ![tools[s].tmp_dir].py2tcl = Append(@, m)]

\* tcltool.py 233: recv(TclHello)
PairRecvHello(s) ==
    /\ tools[s].pc = "hello"
    /\ PairRecv(s, "TclHello", "body")
    /\ UNCHANGED << procs, tmp_dirs >>

\* tcltool.py 368-369: eval sends PyProcedureCall
PairEval(s) ==
    /\ tools[s].pc = "body" /\ DriverFree(s)
    /\ Len(tools[s].cmds) < MaxPairEvals
    /\ \E cmd \in PairCmds :
          /\ PairSend(s, PyProcedureCall(cmd))
          /\ tools' = [tools EXCEPT ![s] = [@ EXCEPT !.pc = "eval", !.state = "WaitForRecv",
                                                     !.cmds = Append(@, cmd)]]
    /\ UNCHANGED << procs, tmp_dirs >>

\* tcltool.py 370-379: eval receives TclProcedureResult
PairEvalRet(s) ==
    /\ tools[s].pc = "eval"
    /\ PairRecv(s, "TclProcedureResult", "body")
    /\ UNCHANGED << procs, tmp_dirs >>

\* the child reads a message from the py2tcl FIFO its environment names: it evaluates
\* a command and answers on its tcl2py FIFO, or it exits on PyExit
PairChildRecv(s) ==
    LET d == procs[s].dir
        m == Head(pipes[d].py2tcl)
    IN  /\ procs[s].alive = "running" /\ procs[s].hello_sent
        /\ pipes[d].py2tcl # << >>
        /\ IF Get(m, "class") = "PyExit"
           THEN /\ procs' = [procs EXCEPT ![s].alive = "dead"]
                /\ pipes' = [pipes EXCEPT ![d].py2tcl = Tail(@)]
           ELSE LET r == PairTclEval(procs[s].x, Get(m, "command")) IN
                /\ procs' = [procs EXCEPT ![s] = [@ EXCEPT !.x = r.x,
                                                           !.cmd_count = @ + 1]]
                /\ pipes' = [pipes EXCEPT ![d] =
                                [py2tcl |-> Tail(pipes[d].py2tcl),
                                 tcl2py |-> Append(pipes[d].tcl2py,
                                               TclProcedureResult(r.result, r.err_code,
                                                                  ToString(procs[s].cmd_count)))]]
        /\ UNCHANGED << tools, tmp_dirs >>

\* tcltool.py 254-261: the scope is left, PyExit is sent
PairLeave(s) ==
    /\ tools[s].pc = "body" /\ DriverFree(s)
    /\ PairSend(s, PyExit("1"))
    /\ tools' = [tools EXCEPT ![s] = [@ EXCEPT !.pc = "leaving", !.state = "WaitForRecv"]]
    /\ UNCHANGED << procs, tmp_dirs >>

\* tcltool.py 266, bridge_server.py 66-72, 57: the child is awaited, the transport scope
\* is left and the temporary directory is removed
PairWait(s) ==
    /\ tools[s].pc = "leaving"
    /\ procs[s].alive = "dead"
    /\ tools' = [tools EXCEPT ![s] = [@ EXCEPT !.pc = "left", !.state = "NotListening"]]
    /\ tmp_dirs' = tmp_dirs \ { tools[s].tmp_dir }
    /\ UNCHANGED << procs, pipes >>

PairInit ==
    /\ SessionUnused /\ TransportUnused /\ ChildUnused
    /\ pc = "p_init"
    /\ call = NoCall
    /\ built = NoResult
    /\ PairUnused

\* the step of session s, the single-session variables untouched
PairStep(s) ==
    /\ \/ PairEnter(s) \/ PairChildHello(s) \/ PairRecvHello(s) \/ PairEval(s)
       \/ PairEvalRet(s) \/ PairChildRecv(s) \/ PairLeave(s) \/ PairWait(s)
    /\ UNCHANGED << bridgeVars, childVars, pipeVars, histVars, callVars >>
    /\ UNCHANGED << interact, abort_on_error, tcl_error, pc, child_exited_early, quit, exc,
                    body_exc, teardown_exc, rc, exc_rc, exc_cmd, cur_cmd, handles, calls >>

PairNext == \E s \in Sessions : PairStep(s)

PairSpec == PairInit /\ [][PairNext]_vars

(***************************************************************************)
(* Claims                                                                  *)
(***************************************************************************)
\* C1: inside the transport scope successful recv_raw and send_raw calls strictly
\* alternate, starting with recv: a frame is received only in a step from WaitForRecv
\* to WaitForSend, a frame is sent only in a step from WaitForSend to WaitForRecv, and
\* the number of frames received minus the number of frames sent is always 0 or 1.
C1_StrictAlternation ==
    /\ [][ /\ Len(recvd') > Len(recvd) =>
                /\ state = "WaitForRecv" /\ state' = "WaitForSend"
                /\ Len(recvd') = Len(recvd) + 1 /\ sent' = sent
           /\ Len(sent') > Len(sent) =>
                /\ state = "WaitForSend" /\ state' = "WaitForRecv"
                /\ Len(sent') = Len(sent) + 1 /\ recvd' = recvd ]_vars
    /\ [](Len(recvd) - Len(sent) \in { 0, 1 })
    /\ [](state = "WaitForSend" => Len(recvd) = Len(sent) + 1)
    /\ [](state = "WaitForRecv" => Len(recvd) = Len(sent))

\* C1 witness: recv, send and recv again have succeeded
C1_Witness == Len(recvd) = 2 /\ Len(sent) = 1 /\ state = "WaitForSend"

\* C2: a send called in WaitForRecv or NotListening, and a recv called in WaitForSend
\* or NotListening, ends at once with the assertion failing: no FIFO is opened, read
\* or written and the transport state is unchanged.
C2_PreconditionViolation ==
    [][ /\ (CallerSend /\ state \in { "WaitForRecv", "NotListening" }) =>
                (/\ tp' = "ret" /\ ret' = "AssertionError" /\ ~touched'
                 /\ UNCHANGED << state, tcl2py_fd, py2tcl_fd, t2p_buf, p2t_buf, sent, recvd >>)
        /\ (CallerRecv /\ state \in { "WaitForSend", "NotListening" }) =>
                (/\ tp' = "ret" /\ ret' = "AssertionError" /\ ~touched'
                 /\ UNCHANGED << state, tcl2py_fd, py2tcl_fd, t2p_buf, p2t_buf, sent, recvd >>)
      ]_vars

\* C2 witness: a send called in WaitForRecv has failed its assertion
C2_Witness ==
    /\ op = "send" /\ tp = "ret" /\ ret = "AssertionError"
    /\ state_at_call = "WaitForRecv" /\ state = "WaitForRecv"

\* the class of a RawMessage
ClassOf(m) == Get(m, "class")

IsCall(m) == ClassOf(m) = "PyProcedureCall"

IsPyExit(m) == ClassOf(m) = "PyExit"

\* the scope body is running: between two statements or inside an evaluation
InBody(p) == p \in { "body", "eval_send", "eval_recv" }

\* C3: if the child exits while the scope body is running, the scope raises
\* CalledProcessError carrying the child's exit code, whatever the code, 0 included;
\* and once the child has read an exit command the body executes nothing more.
C3_ChildExitInBodyRaisesFailed ==
    /\ (pc = "done" /\ InBody(died_at)) =>
            (exc = "CalledProcessError" /\ exc_rc = child_rc)
    /\ (child_seen # << >> /\ IsCall(child_seen[Len(child_seen)])
            /\ IsExit(Get(child_seen[Len(child_seen)], "command"))) => pc # "body"

\* C4: when PyExit was sent and no early death was observed, the scope returns
\* normally if the child's exit code is 0 and the body raised nothing, and raises
\* CalledProcessError carrying the exit code and the argv if the code is not 0.
C4_ExitCodePolicy ==
    (pc = "done" /\ sent # << >> /\ IsPyExit(sent[Len(sent)]) /\ ~child_exited_early) =>
        /\ rc = child_rc
        /\ (rc = 0 /\ body_exc = "none") => exc = "none"
        /\ rc # 0 => (exc = "CalledProcessError" /\ exc_rc = rc /\ exc_cmd = Cmdline)

\* C4 witness: the body raised, PyExit was sent, the child exited with code 1
C4_Witness ==
    /\ pc = "done" /\ sent # << >> /\ IsPyExit(sent[Len(sent)]) /\ ~child_exited_early
    /\ rc = 1 /\ body_exc = "ValueError" /\ exc = "CalledProcessError" /\ exc_rc = 1

\* the last frame received is a TclProcedureResult with a non-zero err_code
LastWasTclError ==
    /\ Len(recvd) >= 2
    /\ ClassOf(recvd[Len(recvd)]) = "TclProcedureResult"
    /\ IntOf(Get(recvd[Len(recvd)], "err_code")) # 0

\* C5: after eval raised TclError the session is usable: the body is handed a
\* transport in WaitForSend, the send of the next eval is accepted and, when its
\* response arrives, the response is the child's result for that next command.
C5_UsableAfterTclError ==
    /\ (pc = "body" /\ LastWasTclError) => state = "WaitForSend"
    /\ (pc = "eval_send" /\ tp = "ret" /\ LastWasTclError) => ret # "AssertionError"
    /\ (pc = "eval_send" /\ tp = "ret" /\ ret = "ok") =>
            (sent[Len(sent)] = PyProcedureCall(cur_cmd) /\ state = "WaitForRecv")
    /\ (pc = "eval_recv" /\ tp = "ret" /\ ret = "ok") =>
            /\ Get(retmsg, "result") = TclEval(cur_cmd)[2]
            /\ Get(retmsg, "err_code") = TclEval(cur_cmd)[1]
            /\ IsCall(child_seen[Len(child_seen)])
            /\ Get(child_seen[Len(child_seen)], "command") = cur_cmd

\* C5 witness: two evals in a row raised TclError and the third returns its result
C5_Witness ==
    /\ pc = "eval_recv" /\ tp = "ret" /\ ret = "ok"
    /\ Len(recvd) = 4
    /\ Get(recvd[2], "err_code") = "1" /\ Get(recvd[3], "err_code") = "1"
    /\ Get(recvd[4], "err_code") = "0" /\ Get(recvd[4], "result") = "2"

\* the PyProcedureCall frames among the first n frames sent
RECURSIVE CallsIn(_)
CallsIn(q) ==
    IF q = << >> THEN << >>
    ELSE IF IsCall(q[1]) THEN << q[1] >> \o CallsIn(Tail(q)) ELSE CallsIn(Tail(q))

\* C6: at most one evaluation is in flight: the child reads the commands in the
\* order the driver sent them, the driver has received the response of every earlier
\* command when it sends the next one, the k-th response is the child's answer to the
\* k-th command, and each handle carries the command it answers.
C6_OneInFlight ==
    LET cmds == CallsIn(sent)
        results == IF recvd = << >> THEN << >> ELSE Tail(recvd)
    IN  /\ Len(cmds) - Len(results) \in { 0, 1 }
        /\ Len(child_seen) <= Len(sent)
        /\ \A i \in 1..Len(child_seen) : child_seen[i] = sent[i]
        /\ Len(cmds) - Len(CallsIn(child_seen)) \in { 0, 1 }
        /\ \A k \in 1..Len(results) :
              /\ ClassOf(results[k]) = "TclProcedureResult"
              /\ Get(results[k], "cmd_idx") = ToString(k - 1)
              /\ Get(results[k], "result") = TclEval(Get(cmds[k], "command"))[2]
        /\ \A i \in 1..Len(handles) :
              /\ handles[i].value = TclEval(handles[i].cmd)[2]
              /\ handles[i].cmd_idx < Len(results)
              /\ Get(cmds[handles[i].cmd_idx + 1], "command") = handles[i].cmd

\* C6 witness: two evaluations have returned their handles, the second after an error
C6_Witness ==
    /\ Len(handles) = 2 /\ Len(recvd) = 3 /\ Len(child_seen) = 2
    /\ handles[1].cmd_idx = 0 /\ handles[2].cmd_idx = 1

\* the driver waits inside recv (the select) or inside the retry loop of send
Blocked == tp \in { "r_select", "s_loop", "s_wait" }

\* C7: whenever the child has exited and the driver waits inside recv or inside the
\* retry loop of send, the driver eventually raises ChildProcessEarlyExit (unless an
\* interrupt ends the wait first).
C7_EarlyExitEventuallyRaised ==
    [](( child = "dead" /\ Blocked ) =>
        <>( tp = "ret" /\ ret \in { "ChildProcessEarlyExit", "KeyboardInterrupt" } ))

\* C8: a send whose write hit a broken pipe (the descriptor was opened, the frame
\* was not delivered) raises ChildProcessEarlyExit to its caller.
C8_BrokenPipeRaisesEarlyExit ==
    (op = "send" /\ tp = "ret" /\ py2tcl_fd = "stale") => ret = "ChildProcessEarlyExit"

\* C9: an exception raised inside the scope body is the exception that leaves the
\* session scope, for every interact, abort_on_error and exit code of the child.
C9_BodyExceptionEmerges ==
    (pc = "done" /\ body_exc # "none") => exc = body_exc

\* C10 as stated: quit is "1" exactly when interact is false, or abort_on_error is
\* true and the body raised an exception other than ChildProcessEarlyExit.
C10_QuitField ==
    \A i \in 1..Len(sent) : IsPyExit(sent[i]) =>
        ( Get(sent[i], "quit") = "1" <=>
            ( ~interact \/ ( abort_on_error
                             /\ body_exc \notin { "none", "ChildProcessEarlyExit" } ) ) )

\* C10 amended: quit is "1" exactly when interact is false, or abort_on_error is true
\* and the body raised an exception derived from Exception (not KeyboardInterrupt)
\* other than ChildProcessEarlyExit; otherwise it is "0".
C10_QuitFieldForExceptions ==
    \A i \in 1..Len(sent) : IsPyExit(sent[i]) =>
        /\ Get(sent[i], "quit") \in { "0", "1" }
        /\ Get(sent[i], "quit") = "1" <=>
            ( ~interact \/ ( abort_on_error /\ IsException(body_exc)
                             /\ body_exc # "ChildProcessEarlyExit" ) )

\* C10 witness: interactive with abort_on_error, the body raised TclError, quit is "1"
C10_Witness ==
    /\ interact /\ abort_on_error /\ body_exc = "TclError"
    /\ sent # << >> /\ IsPyExit(sent[Len(sent)]) /\ Get(sent[Len(sent)], "quit") = "1"

\* a send is running: it has passed its assertion and has not ended
SendRunning == op = "send" /\ tp \in { "s_loop", "s_wait", "s_write" }

\* C11: once ChildProcessEarlyExit was raised in the scope body or while awaiting
\* TclHello (child_exited_early is set), the driver sends nothing more and starts no
\* send: the finally block goes straight to waiting for the child.
C11_NoSendAfterEarlyExit ==
    [][ child_exited_early =>
          /\ sent' = sent
          /\ ~SendRunning'
          /\ op' = op
          /\ pc = "finally" => pc' = "wait" ]_vars

\* C11 witness: the body's eval raised ChildProcessEarlyExit, teardown waits for the
\* child and no PyExit was sent
C11_Witness ==
    /\ pc = "wait" /\ child_exited_early /\ body_exc = "ChildProcessEarlyExit"
    /\ op = "recv" /\ Len(sent) = 1 /\ IsCall(sent[1])

\* the PyExit frames among the frames sent
RECURSIVE PyExitsIn(_)
PyExitsIn(q) ==
    IF q = << >> THEN << >>
    ELSE IF IsPyExit(q[1]) THEN << q[1] >> \o PyExitsIn(Tail(q)) ELSE PyExitsIn(Tail(q))

\* C12: a session in which no early child death was observed has sent exactly one
\* PyExit when the scope is left, and it is the last frame sent, whichever way the
\* body ended.  (Sessions whose child died under the write of PyExit, where the
\* second close of the descriptor raises OSError, are left aside here.)
C12_ExactlyOnePyExit ==
    (pc = "done" /\ ~child_exited_early /\ exc # "OSError") =>
        (Len(PyExitsIn(sent)) = 1 /\ IsPyExit(sent[Len(sent)]))

\* C13: when the scope returns or raises and a child was spawned, the driver has
\* waited for the child (proc.wait() has returned its exit code).
C13_ChildAwaited ==
    (pc = "done" /\ child # "unspawned") => (rc # -1 /\ child = "dead" /\ rc = child_rc)

\* C14: in every reachable state of a transport the temporary directory with the
\* three FIFOs exists if and only if the transport state is not NotListening.
C14_FifosIffListening == fifos <=> state # "NotListening"

\* C14 witness: inside the scope, after a frame was received, the FIFOs exist
C14_Witness == fifos /\ state = "WaitForSend" /\ Len(recvd) = 1

\* C15: after the transport scope was left, by whatever path, the transport state is
\* NotListening, the FIFOs and their directory are gone and the sentinel descriptor,
\* if it was opened, is closed.
C15_ScopeLeftClean ==
    pc = "done" => ( state = "NotListening" /\ ~fifos /\ sentinel_fd \in { "None", "closed" } )

\* C15 witness: the scope was left on an exception of the teardown, after the child
\* died; the sentinel that was opened is closed
C15_Witness ==
    /\ pc = "done" /\ exc = "CalledProcessError" /\ body_exc = "ValueError"
    /\ sentinel_fd = "closed" /\ state = "NotListening" /\ ~fifos

\* a recv or send is running: it has passed its assertion and has not ended
TransportRunning == tp \in { "r_select", "s_loop", "s_wait", "s_write" }

HelloReceived == recvd # << >> /\ ClassOf(recvd[1]) = "TclHello"

\* C17: the body runs only after TclHello was received from a spawned child, and a
\* PyProcedureCall is sent only from within the body: after TclHello was received,
\* before any PyExit and before the scope is left.
C17_Lifecycle ==
    /\ [](child = "unspawned" => (sent = << >> /\ recvd = << >>))
    /\ [](InBody(pc) => (HelloReceived /\ child # "unspawned"))
    /\ [](pc = "done" => ~TransportRunning)
    /\ [][ ( Len(sent') > Len(sent) /\ IsCall(sent'[Len(sent')]) ) =>
              ( HelloReceived /\ PyExitsIn(sent) = << >> /\ pc = "eval_send" ) ]_vars
    /\ [][ PyExitsIn(sent) # << >> => sent' = sent ]_vars

\* C17 witness: a whole lifecycle: hello, one request and response, PyExit, reaped
C17_Witness ==
    /\ pc = "done" /\ exc = "none" /\ rc = 0
    /\ Len(sent) = 2 /\ IsCall(sent[1]) /\ IsPyExit(sent[2])
    /\ Len(recvd) = 2 /\ HelloReceived

\* C18: a raw message is constructed into a typed message of class T only if its
\* class value is T's tag and every key of T's keys_required is present.
C18_RequiredKeysChecked ==
    (pc = "m_typed" /\ ret = "ok") =>
        /\ HasKey(retmsg, "class") /\ ClassOf(retmsg) = retcls
        /\ \A k \in keys_required(retcls) : HasKey(retmsg, k)

\* the class of the received frame is among the permitted classes
ClassPermitted == \E i \in 1..Len(permitted) : permitted[i] = ClassOf(retmsg)

\* C19: when recv has read a frame (and the caller has done nothing since), it returns a message of the first permitted class
\* that accepts the frame; when the frame's class is not among the permitted classes
\* it raises WrongMessageClass, the frame is consumed and the state is WaitForSend.
C19_WrongClassAfterConsuming ==
    (pc = "c_scope" /\ op = "recv" /\ tp = "ret" /\ retmsg # << >>) =>
        /\ ret \in { "ok", "WrongMessageClass" }
        /\ ret = "ok" =>
              /\ retcls = ClassOf(retmsg)
              /\ \E i \in 1..Len(permitted) :
                    /\ permitted[i] = retcls
                    /\ \A j \in 1..(i - 1) : permitted[j] # ClassOf(retmsg)
        /\ ret = "WrongMessageClass" <=> ~ClassPermitted
        /\ ret = "WrongMessageClass" =>
              /\ state = "WaitForSend" /\ state_at_call = "WaitForRecv"
              /\ t2p_buf = << >> /\ tcl2py_fd = "-1"
              /\ recvd # << >> /\ recvd[Len(recvd)] = retmsg

\* C19 witness: recv(TclProcedureResult) read the child's TclHello
C19_Witness ==
    /\ pc = "c_scope" /\ op = "recv" /\ tp = "ret" /\ ret = "WrongMessageClass"
    /\ ClassOf(retmsg) = "TclHello" /\ permitted = << "TclProcedureResult" >>
    /\ state = "WaitForSend"

\* C20: decoding the bytes produced by encoding m yields m again, for every m whose
\* keys match the key grammar, the message with no keys and messages with empty
\* values included.
C20_RoundTrip == pc = "m_read" => ( ret = "ok" /\ retmsg = send_data )

\* str(a) of a scalar or handle with its braces escaped, wrapped in braces
BracedValue(a) == "{" \o Text(escape_braces(a.s)) \o "}"

\* C21: encode of a handle with index k at the top level (nested false) returns exactly
\* the reference text $cmd_results(k); a handle inside a list, tuple or dict is encoded
\* as its string value, braces escaped, wrapped in braces, and never as the reference.
C21_HandleEncoding ==
    pc = "e_done" =>
        LET obj == call.args[1] IN
        /\ ( obj.t = "ref" /\ ~call.nested ) =>
              built = [exc |-> "none", text |-> "$cmd_results(" \o ToString(obj.idx) \o ")"]
        /\ ( obj.t = "ref" /\ call.nested ) =>
              built = [exc |-> "none", text |-> BracedValue(obj)]
        /\ ( obj.t \in { "list", "tuple" } /\ \A i \in 1..Len(obj.items) : obj.items[i] \in Atoms ) =>
              built = [exc |-> "none",
                       text |-> "{" \o Join(" ", [i \in 1..Len(obj.items) |->
                                                     BracedValue(obj.items[i])]) \o "}"]
        /\ ( obj.t = "dict" /\ obj.keys # << >>
             /\ \A i \in 1..Len(obj.items) : obj.items[i] \in Atoms ) =>
              built = [exc |-> "none",
                       text |-> "{" \o Join(" ", [i \in 1..(2 * Len(obj.items)) |->
                                    IF i % 2 = 1 THEN BracedValue(obj.keys[(i + 1) \div 2])
                                    ELSE BracedValue(obj.items[i \div 2])]) \o "}"]

\* C21 witness: a list of a string and the handle 1 with value {x} was encoded to
\* {{a} {\{x\}}}
C21_Witness ==
    /\ pc = "e_done"
    /\ call.args[1] = PyList(<< PyStr(<< "a" >>), PyRef(1, << "{", "x", "}" >>) >>)
    /\ built.text = "{{a} {\\{x\\}}}"

\* C22: a method m called with positional arguments a1..ak on a handle h is turned into
\* a procedure call according to called_object_pos: with "first" the command name is
\* h.ref_str() and the arguments are (m, a1..ak); with "second" the name is m and the
\* arguments are (h, a1..ak); with "last" the name is m and the arguments are
\* (a1..ak, h); any other value raises ValueError and nothing is sent to the child.
C22_CalledObjectPos ==
    ( call.fn = "obj" /\ built # NoResult ) =>
        LET h == call.self
            m == call.name
            a == call.args
            pos == call.called_object_pos
        IN  /\ pos = "first" =>
                  built = proc_call("$cmd_results(" \o ToString(h.idx) \o ")",
                                    << PyStr(m) >> \o a, call.kwargs)
            /\ pos = "second" => built = proc_call(Text(m), << h >> \o a, call.kwargs)
            /\ pos = "last" => built = proc_call(Text(m), a \o << h >>, call.kwargs)
            /\ pos \notin { "first", "second", "last" } =>
                  /\ built.exc = "ValueError" /\ body_exc = "ValueError"
                  /\ sent = << >> /\ p2t_buf = << >> /\ calls = 0 /\ op # "send"
            /\ ( built.exc = "none" /\ sent # << >> ) =>
                  sent = << PyProcedureCall(built.text) >>

\* C22 witness: with "last", mycmd called on the handle 0 with the argument a was sent
\* to the child as  mycmd {a} $cmd_results(0)
C22_Witness ==
    /\ call.fn = "obj" /\ call.called_object_pos = "last"
    /\ call.args = << PyStr(<< "a" >>) >> /\ call.kwargs.keys = << >>
    /\ sent = << PyProcedureCall("mycmd {a} $cmd_results(0)") >>

\* the words the keyword arguments stand for: -k alone for True, nothing for False,
\* -k and the encoding of the value otherwise
RECURSIVE SwitchWords(_, _)
SwitchWords(ks, vs) ==
    IF ks = << >> THEN << >>
    ELSE ( IF vs[1] = PyBool(TRUE) THEN << "-" \o Text(ks[1].s) >>
           ELSE IF vs[1] = PyBool(FALSE) THEN << >>
           ELSE << "-" \o Text(ks[1].s), encode(vs[1], FALSE).text >> )
         \o SwitchWords(Tail(ks), Tail(vs))

\* encode returns for every argument of the call
ArgsEncodable ==
    /\ \A i \in 1..Len(call.args) : encode(call.args[i], FALSE).exc = "none"
    /\ \A i \in 1..Len(call.kwargs.items) :
          call.kwargs.items[i].t # "bool" => encode(call.kwargs.items[i], FALSE).exc = "none"

\* C23: proc_call(name, args, kwargs) builds the command text from the name, then for
\* each keyword argument in order -k followed by encode(v), or -k alone when v is True,
\* or nothing when v is False, then the encoded positional arguments, all joined by
\* single spaces; that text is sent by exactly one eval.  (When encode raises for an
\* argument, the exception leaves proc_call and nothing is evaluated.)
C23_ProcCallText ==
    ( call.fn = "tool" /\ built # NoResult ) =>
        IF ArgsEncodable
        THEN /\ built = [exc |-> "none",
                         text |-> Join(" ", << Text(call.name) >>
                                            \o SwitchWords(call.kwargs.keys, call.kwargs.items)
                                            \o [i \in 1..Len(call.args) |->
                                                   encode(call.args[i], FALSE).text])]
             /\ calls = 1 /\ cur_cmd = built.text
             /\ sent \in { << >>, << PyProcedureCall(built.text) >> }
             /\ child_seen \in { << >>, << PyProcedureCall(built.text) >> }
        ELSE /\ built.exc = "TypeError" /\ body_exc = "TypeError"
             /\ calls = 0 /\ sent = << >>

\* C23 witness: list(7, w=True, v="up") reached the child as  list -w -v {up} {7}
C23_Witness ==
    /\ call.fn = "tool"
    /\ call.kwargs = PyDict(<< PyStr(<< "w" >>), PyStr(<< "v" >>) >>,
                            << PyBool(TRUE), PyStr(<< "u", "p" >>) >>)
    /\ call.args = << PyInt(7) >>
    /\ child_seen = << PyProcedureCall("list -w -v {up} {7}") >>

\* a tool object is inside its scope
InScope(s) == tools[s].pc \in { "hello", "body", "eval", "leaving" }

\* what a child that is given cmds, and nothing else, answers: from the variable x and
\* the counter n on
RECURSIVE Replay(_, _, _)
Replay(x, n, cmds) ==
    IF cmds = << >> THEN << >>
    ELSE LET r == PairTclEval(x, cmds[1])
         IN  << [cmd_idx |-> n, err_code |-> r.err_code, value |-> r.result] >>
             \o Replay(r.x, n + 1, Tail(cmds))

\* C24: two sessions open at the same time are independent: each has its own temporary
\* directory with its FIFOs, its own child (which uses those FIFOs) and its own
\* transport state; a step on one session (an evaluation, its child answering) leaves
\* the other session's transport state, commands, results, child and FIFOs unchanged;
\* and the results a session receives are those its own commands produce alone.
C24_SessionsIndependent ==
    /\ [] ( \A s, t \in Sessions :
              /\ ( s # t /\ InScope(s) /\ InScope(t) ) => tools[s].tmp_dir # tools[t].tmp_dir
              /\ InScope(s) => /\ tools[s].tmp_dir \in tmp_dirs
                               /\ procs[s].dir = tools[s].tmp_dir
              /\ \A k \in 1..Len(tools[s].results) :
                    tools[s].results[k] = Replay(<< >>, 0, tools[s].cmds)[k] )
    /\ [][ \A s, t \in Sessions :
              ( s # t /\ ( tools'[s] # tools[s] \/ procs'[s] # procs[s] ) ) =>
                  /\ tools'[t] = tools[t]
                  /\ procs'[t] = procs[t]
                  /\ InScope(t) => pipes'[tools[t].tmp_dir] = pipes[tools[t].tmp_dir] ]_vars

\* C24 witness: both sessions are open, each has set x to its own value and read it
\* back, and each got its own value with its own cmd_idx 1
C24_Witness ==
    /\ tools["a"].pc = "body" /\ tools["b"].pc = "body"
    /\ tools["a"].cmds = << SetCmd(<< "A" >>), GetCmd >>
    /\ tools["b"].cmds = << SetCmd(<< "B" >>), GetCmd >>
    /\ tools["a"].results[2] = [cmd_idx |-> 1, err_code |-> "0", value |-> "A"]
    /\ tools["b"].results[2] = [cmd_idx |-> 1, err_code |-> "0", value |-> "B"]

\* C25: eval(cmd) sends exactly one PyProcedureCall whose command is cmd and then
\* receives exactly one TclProcedureResult; it raises TclError carrying the result text
\* of the response exactly when int(err_code) is not zero, and otherwise returns a
\* handle with cmd_idx = int(cmd_idx of the response), value = its result and cmd = cmd.
C25_Eval ==
    /\ [][ ( pc = "eval_recv" /\ pc' # pc /\ ret = "ok" ) =>
              /\ Len(CallsIn(sent)) = calls
              /\ sent[Len(sent)] = PyProcedureCall(cur_cmd)
              /\ Len(recvd) = calls + 1
              /\ recvd[Len(recvd)] = retmsg
              /\ ClassOf(retmsg) = "TclProcedureResult"
              /\ IF IntOf(Get(retmsg, "err_code")) # 0
                 THEN /\ tcl_error' = << Get(retmsg, "result") >>
                      /\ handles' = handles
                      /\ \/ exc' = "TclError" /\ body_exc' = "TclError" /\ pc' = "finally"
                         \/ exc' = exc /\ pc' = "body"
                 ELSE /\ handles' = Append(handles,
                                           [cmd_idx |-> IntOf(Get(retmsg, "cmd_idx")),
                                            value |-> Get(retmsg, "result"),
                                            cmd |-> cur_cmd])
                      /\ tcl_error' = tcl_error
                      /\ exc' = exc /\ pc' = "body" ]_vars
    /\ [][ ( tcl_error' # tcl_error \/ ( exc' = "TclError" /\ exc # "TclError" ) ) =>
              /\ pc = "eval_recv" /\ ret = "ok"
              /\ IntOf(Get(retmsg, "err_code")) # 0 ]_vars

\* C25 witness: expr 1+1 returned the handle 0 with value 2, then expr *+ raised a
\* TclError with the child's error text, which the body caught
C25_Witness ==
    /\ pc = "body" /\ calls = 2
    /\ handles = << [cmd_idx |-> 0, value |-> "2", cmd |-> "expr 1+1"] >>
    /\ tcl_error = << "syntax error in expression" >>
    /\ exc = "none"

\* C26: encode is total and returns a string for every input: a list or tuple, the
\* empty one included, gives "{" + the nested encodings of its elements joined by single
\* spaces + "}"; a dict, the empty one included, gives the same for its entries
\* flattened to k1, v1, k2, v2, ...; any other value gives "{" + str(value) with every
\* "{" and "}" prefixed by a backslash + "}".
C26_EncodeTotal ==
    pc = "e_done" =>
        LET obj == call.args[1]
            flat == [i \in 1..(2 * Len(obj.keys)) |->
                        IF i % 2 = 1 THEN obj.keys[(i + 1) \div 2] ELSE obj.items[i \div 2]]
        IN  /\ built.exc = "none"
            /\ obj.t \in { "list", "tuple" } =>
                  built.text = "{" \o Join(" ", [i \in 1..Len(obj.items) |->
                                                    encode(obj.items[i], TRUE).text]) \o "}"
            /\ obj.t = "dict" =>
                  built.text = "{" \o Join(" ", [i \in 1..Len(flat) |->
                                                    encode(flat[i], TRUE).text]) \o "}"
            /\ obj.t \in { "str", "int", "bool" } => built.text = BracedValue(obj)

\* a recv or send call ends in this step by raising ChildProcessEarlyExit
RaisesEarlyExit == tp # "ret" /\ tp' = "ret" /\ ret' = "ChildProcessEarlyExit"

\* C27 as stated: when recv or send raises ChildProcessEarlyExit, the transport state
\* becomes NotListening as part of that failing operation.
C27_EarlyExitStopsListening ==
    [][ RaisesEarlyExit => state' = "NotListening" ]_vars

\* C27 amended: when recv or send raises ChildProcessEarlyExit the transport state is
\* left as it was when the operation was called (WaitForRecv for recv, WaitForSend for
\* send) and the FIFOs stay; the state becomes NotListening only when the transport
\* scope is left.
C27_EarlyExitKeepsState ==
    /\ [][ RaisesEarlyExit =>
              /\ state' = state /\ state' = state_at_call'
              /\ state' = ( IF op' = "recv" THEN "WaitForRecv" ELSE "WaitForSend" )
              /\ fifos' ]_vars
    /\ [][ ( state # "NotListening" /\ state' = "NotListening" ) =>
              ( pc = "c_scope" /\ pc' = "c_left" /\ ~fifos' ) ]_vars

\* C27 witness: a send has raised ChildProcessEarlyExit and the transport is still in
\* WaitForSend inside its scope
C27_Witness ==
    /\ pc = "c_scope" /\ op = "send" /\ tp = "ret" /\ ret = "ChildProcessEarlyExit"
    /\ state = "WaitForSend" /\ fifos

\* the last recv or send call has raised ChildProcessEarlyExit
EarlyExitRaised == tp = "ret" /\ ret = "ChildProcessEarlyExit"

\* the last recv or send call has completed successfully
CompletedOk == tp = "ret" /\ ret = "ok"

BetweenOperations == tp \in { "idle", "ret" }

\* C29: whenever recv or send finishes, by returning or by raising, the FIFO descriptor
\* it opened is closed, so between operations no descriptor of tcl2py or py2tcl is open
\* (only the sentinel's may be); and when an operation succeeds the descriptor is
\* already closed when the state has changed.
C29_DescriptorsClosed ==
    /\ [] ( BetweenOperations => ( tcl2py_fd # "open" /\ py2tcl_fd # "open" ) )
    /\ [][ ( tp # "ret" /\ tp' = "ret" /\ state' # state ) =>
              /\ op' = "recv" => tcl2py_fd' = "-1"
              /\ op' = "send" => py2tcl_fd' = "-1" ]_vars

\* C29 witness: a recv that had opened tcl2py raised ChildProcessEarlyExit, its finally
\* block has closed the descriptor, and the sentinel descriptor is the one still open
C29_Witness ==
    /\ op = "recv" /\ tp = "ret" /\ ret = "ChildProcessEarlyExit"
    /\ tcl2py_fd = "closed" /\ py2tcl_fd # "open" /\ sentinel_fd = "open"

\* the step in which the sentinel read end is opened
SentinelOpens == sentinel_fd = "None" /\ sentinel_fd' = "open"

SendRetrying == op = "send" /\ tp \in { "s_loop", "s_wait" }

\* C31: send has no timeout.  Inside the retry loop the transport state stays
\* WaitForSend and nothing is written; while the child is alive and has not opened the
\* py2tcl read end, a step of send stays in the loop; the loop is left only with a
\* reader found, by ChildProcessEarlyExit or by an interrupt, never by a timeout; and if
\* the child stays alive (and the driver is not interrupted), send eventually writes the
\* frame and completes in WaitForRecv.
C31_SendRetriesWithoutTimeout ==
    /\ [] ( SendRetrying => ( state = "WaitForSend" /\ ret = "none" /\ ~touched ) )
    /\ [][ SendRetrying =>
              /\ ( state' = state /\ sent' = sent /\ p2t_buf' = p2t_buf ) \/ child' # child
              /\ ( child = "running" /\ ~ChildReading /\ tp' # tp /\ child' = child ) =>
                    ( SendRetrying' \/ ret' = "KeyboardInterrupt" )
              /\ ( tp' \notin { "s_loop", "s_wait" } ) =>
                    \/ tp' = "s_write" /\ ChildReading
                    \/ tp' = "ret" /\ ret' \in { "ChildProcessEarlyExit", "KeyboardInterrupt" } ]_vars
    /\ [] ( SendRetrying =>
              <> ( \/ op = "send" /\ tp = "ret" /\ ret = "ok" /\ state = "WaitForRecv"
                      /\ sent # << >> /\ sent[Len(sent)] = send_data
                   \/ child = "dead"
                   \/ ret = "KeyboardInterrupt" ) )

\* C31 witness: the send of an evaluation has found no reader and waits, the child is
\* alive and has not opened py2tcl yet
C31_Witness ==
    /\ pc = "eval_send" /\ op = "send" /\ tp = "s_wait"
    /\ child = "running" /\ ~ChildReading /\ state = "WaitForSend"

\* C32: on every path through recv and send each descriptor opened for the message is
\* closed exactly once: when the call has returned or raised, its descriptor is not
\* open, it was not closed a second time after its file object had closed it, and the
\* error that reaches the caller is not the bad-descriptor error of a second close.
C32_ClosedExactlyOnce ==
    ( op \in { "recv", "send" } /\ tp = "ret" ) =>
        /\ tcl2py_fd \notin { "open", "stale" }
        /\ py2tcl_fd \notin { "open", "stale" }
        /\ ret # "OSError"

====
